---- MODULE Spec2Model ----
(***************************************************************************)
(* Model of the gogame scene container (engine/core/scene.go), the entity  *)
(* record, the brute-force collision detector (physics.DetectCollisions,   *)
(* engine/physics/collider.go, math.Rectangle) and the frame loop of       *)
(* Engine.Run (engine/core/engine.go).                                     *)
(*                                                                         *)
(* Entities are heap objects (Go pointers): `ent` maps every object to its *)
(* mutable fields, `entities` is the scene's slice of pointers.  Callbacks *)
(* (behaviours and collision handlers) are user code: each invocation      *)
(* performs one nondeterministically chosen call on the scene or entity.   *)
(***************************************************************************)
EXTENDS Integers, Sequences, FiniteSets, TLC

\* ------------------------------------------------------------------ bounds
\* AddEntity is called at most MaxId times (ids 1..MaxId are handed out).
MaxId == 3
\* RemoveEntity is not called while the removal queue holds MaxQueue ids.
MaxQueue == 1
\* Ticks returned by the scheduler for one frame (the engine's own ceiling
\* maxUpdateSteps is larger; see engine.go).
MaxTicksPerFrame == 1
\* The stay counter of the repeated-overlap scenario stops at MaxRun Updates.
MaxRun == 3
\* Time.Tick is called at most MaxCalls times.
MaxCalls == 3

\* ---------------------------------------------------------------- fixture
\* The entity objects of the program under analysis and their constant parts.
Ents == {"A", "B", "C"}
Nil == "nil"
Positions == {0, 2}

\* Entity.Behavior is non-nil
HasBehavior(e) == e \in {"A", "B"}
\* Entity.Sprite is non-nil
HasSprite(e) == e \in {"A", "B"}
\* Entity.OnCollisionEnter / OnCollisionStay / OnCollisionExit are non-nil
HasOnCollisionEnter(e) == e \in {"A", "B"}
HasOnCollisionStay(e) == e \in {"A", "B", "C"}
HasOnCollisionExit(e) == e \in {"A", "B"}

\* physics.NewCollider(width, height): centred bounds, layer 0, mask
\* 0xFFFFFFFF.  A mask (a Go int of 64 bits) is the set of its one-bits.
NewCollider(width, height) ==
  [Bounds |-> [X |-> -(width \div 2), Y |-> -(height \div 2),
               Width |-> width, Height |-> height],
   Offset |-> [X |-> 0, Y |-> 0],
   IsTrigger |-> FALSE,
   CollisionLayer |-> 0,
   CollisionMask |-> 0..31]

\* Entity.Collider is non-nil
HasCollider(e) == e \in {"A", "B", "C"}
\* Entity.Collider of the objects that own one: the mask is the one the
\* integration tests install (0xFF).
ColliderOf(e) == [NewCollider(2, 2) EXCEPT !.CollisionMask = 0..7]

\* A freshly allocated entity: ID zero value, active, at the origin, scale 1.
NewEntityObject ==
  [ID |-> 0, Active |-> TRUE,
   Transform |-> [Position |-> [X |-> 0, Y |-> 0], Rotation |-> 0,
                  Scale |-> [X |-> 1, Y |-> 1]]]

\* --------------------------------------------------------------- geometry
\* A plausible slip: touching rectangles count as intersecting.
RectIntersects_inclusive(r, other) ==
  /\ r.X <= other.X + other.Width
  /\ r.X + r.Width >= other.X
  /\ r.Y <= other.Y + other.Height
  /\ r.Y + r.Height >= other.Y

\* math.Rectangle.Intersects
RectIntersects(r, other) ==
  /\ r.X < other.X + other.Width
  /\ r.X + r.Width > other.X
  /\ r.Y < other.Y + other.Height
  /\ r.Y + r.Height > other.Y

\* A plausible slip: a quarter turn swaps the extents of the box.
GetWorldBounds_rotated(c, transform) ==
  LET quarter == transform.Rotation = 90 IN
  [X |-> transform.Position.X + (c.Offset.X * transform.Scale.X)
                              + (c.Bounds.X * transform.Scale.X),
   Y |-> transform.Position.Y + (c.Offset.Y * transform.Scale.Y)
                              + (c.Bounds.Y * transform.Scale.Y),
   Width |-> IF quarter THEN c.Bounds.Height * transform.Scale.Y
             ELSE c.Bounds.Width * transform.Scale.X,
   Height |-> IF quarter THEN c.Bounds.Width * transform.Scale.X
              ELSE c.Bounds.Height * transform.Scale.Y]

\* Collider.GetWorldBounds
GetWorldBounds(c, transform) ==
  [X |-> transform.Position.X + (c.Offset.X * transform.Scale.X)
                              + (c.Bounds.X * transform.Scale.X),
   Y |-> transform.Position.Y + (c.Offset.Y * transform.Scale.Y)
                              + (c.Bounds.Y * transform.Scale.Y),
   Width |-> c.Bounds.Width * transform.Scale.X,
   Height |-> c.Bounds.Height * transform.Scale.Y]

\* mask & (1 << layer) != 0 on 64-bit ints: 1 << layer is the bit `layer`
\* for 0 <= layer <= 63 and 0 for layer >= 64 (a negative layer panics and
\* is not modelled).
MaskHasLayer(mask, layer) == layer \in 0..63 /\ layer \in mask

\* A plausible slip: only this collider's mask is consulted.
Intersects_oneSided(c, other, thisTransform, otherTransform) ==
  IF ~MaskHasLayer(c.CollisionMask, other.CollisionLayer)
  THEN FALSE
  ELSE RectIntersects(GetWorldBounds(c, thisTransform),
                      GetWorldBounds(other, otherTransform))

\* Collider.Intersects
Intersects(c, other, thisTransform, otherTransform) ==
  IF ~MaskHasLayer(c.CollisionMask, other.CollisionLayer)
     \/ ~MaskHasLayer(other.CollisionMask, c.CollisionLayer)
  THEN FALSE
  ELSE RectIntersects(GetWorldBounds(c, thisTransform),
                      GetWorldBounds(other, otherTransform))

\* newCollisionPairKey
newCollisionPairKey(id1, id2) == IF id1 < id2 THEN <<id1, id2>> ELSE <<id2, id1>>

\* ------------------------------------------------------------------ state
VARIABLES
  entities,            \* Scene.entities: sequence of entity objects
  nextEntityID,        \* Scene.nextEntityID
  entitiesToRemove,    \* Scene.entitiesToRemove: sequence of ids
  previousCollisions,  \* Scene.previousCollisions: set of pair keys
  ent,                 \* heap: object -> [ID, Active, Transform]
  pc,                  \* position of the frame loop / Scene.Update
  idx,                 \* index of the running range loop
  rangeLen,            \* length of the slice the behaviour loop ranges over
  collisions,          \* result of physics.DetectCollisions
  currentCollisions,   \* detectCollisions' local map
  exitDone,            \* keys of previousCollisions the exit loop has visited
  ticksLeft,           \* iterations left of Engine.Run's update loop
  \* history (observations, not program state)
  returned,            \* ids returned by AddEntity, oldest first
  wasInScene,          \* per queued id: an entity had that id when queued
  log,                 \* callbacks invoked in the running tick
  rendered,            \* entities drawn by the running frame's Render
  frameQueued,         \* ids queued for entities in the scene at frame start
  selfRemoved,         \* entities whose behaviour queued their own id this tick
  ghostRemoved,        \* entities removed through an id queued while unknown
  observe,             \* which of the observers below is switched on
  c7,                  \* phase of the enter/stay/exit scenario for (A, B)
  run9,                \* Updates since creation in which (A, B) overlapped
  stay9,               \* stay dispatches of the pair (A, B) in that run
  prevPairs,           \* pairs of objects that collided in the previous Update
  everPairs            \* pairs of objects that collided in some earlier Update

sceneVars == <<entities, nextEntityID, entitiesToRemove, previousCollisions, ent,
               pc, idx, rangeLen, collisions, currentCollisions, exitDone,
               ticksLeft, returned, wasInScene, log, rendered, frameQueued,
               selfRemoved, ghostRemoved, observe, c7, run9, stay9, prevPairs,
               everPairs>>

\* The timer of the engine (core.Time) and what a frame of Engine.Run does
\* with its result.
VARIABLES
  accumulator,         \* Time.accumulator, a float64
  lastTime,            \* Time.lastTime, in milliseconds since NewTime
  \* history (observations, not program state)
  tickCalls,           \* calls of Time.Tick so far
  frameMs,             \* elapsed time seen by the last call, in milliseconds
  accBefore,           \* the accumulator before the last call
  updateCount,         \* updateCount returned by the last call
  executed,            \* Scene.Update calls Engine.Run made in the last frame
  elapsedSum,          \* exact sum of the clamped frame times
  returnedSum,         \* exact sum of updateCount * dt over all calls
  executedSum          \* Scene.Update calls made in all frames

timeVars == <<accumulator, lastTime, tickCalls, frameMs, accBefore, updateCount,
              executed, elapsedSum, returnedSum, executedSum>>

\* One application of the collider functions to chosen arguments.
VARIABLES
  gPc,                 \* "off"; "in" / "at" / "wb" (arguments chosen);
                       \* "out" / "found" / "wbOut" (applied)
  gIn,                 \* the arguments
  gOut                 \* the results

geoVars == <<gPc, gIn, gOut>>

\* Engine.Run with a failing renderer, a quit event and Stop
VARIABLES
  eng,                 \* the engine as constructed: initialized, scene
  ePc,                 \* position of Engine.Run
  running,             \* Engine.running
  eTicks,              \* updateCount - i of the running update loop
  eFrame,              \* iterations of the game loop that reached Tick
  eResult,             \* what Run returned
  eLog                 \* history: the calls Run made

runVars == <<eng, ePc, running, eTicks, eFrame, eResult, eLog>>
\* Two scenes side by side
VARIABLES
  scenes,              \* scene number -> [entities, nextEntityID, entitiesToRemove]
  objects,             \* heap: object -> [ID, Active, Transform]
  mLast                \* history: the last call, its scene, the id it returned
                       \* and the scenes before it

multiVars == <<scenes, objects, mLast>>
\* InputManager
VARIABLES
  currentKeys,         \* InputManager.currentKeys: a map, key -> bool
  previousKeys,        \* InputManager.previousKeys
  down,                \* history: the keys whose last event was a press
  downAtUpdate,        \* history: `down` at the last InputManager.Update
  eventsSince          \* history: keys with an event since the last Update
                       \* (every key before the first Update)

inputVars == <<currentKeys, previousKeys, down, downAtUpdate, eventsSince>>
\* AssetManager
VARIABLES
  textures,            \* AssetManager.textures: a map, path -> texture
  refCount,            \* AssetManager.refCount: a map, path -> int
  nextTexture,         \* the texture the next CreateTextureFromSurface makes
  destroyed,           \* the textures on which Destroy was called
  refs,                \* history: per path, successful loads not yet unloaded
  aLast                \* history: the last call, its arguments and results

assetVars == <<textures, refCount, nextTexture, destroyed, refs, aLast>>
\* The FPS counter of Engine.Run
VARIABLES
  fps,                 \* Engine.fps, in thousandths of a frame per second
  frameCount,          \* Engine.frameCount
  fpsTimer,            \* Engine.fpsTimer, a float64
  period,              \* the time one iteration of the loop takes (microseconds)
  wallUs,              \* history: time elapsed since the last update of fps
  window,              \* history: frames and time between the last two updates
  fpsUpdates,          \* history: updates of fps so far
  shown                \* history: the last result of GetFPS (-1: none yet)

fpsVars == <<fps, frameCount, fpsTimer, period, wallUs, window, fpsUpdates, shown>>
\* Engine.Run feeding the InputManager
VARIABLES
  pPc,                 \* position of the loop: "events", "ticks", "stopped"
  pEvents,             \* keyboard events handleEvents has polled in this frame
  pTicks,              \* updateCount - i of the running update loop
  pFrames,             \* frames finished
  thisFrame,           \* history of the running frame: the keys that went
                       \* down in its event pump, per key the ticks in which
                       \* KeyPressed was true, and its number of ticks
  lastFrame            \* the same of the frame that finished last

pumpVars == <<pPc, pEvents, pTicks, pFrames, thisFrame, lastFrame>>
extVars == <<runVars, multiVars, inputVars, assetVars, fpsVars, pumpVars>>

restOfRun == <<sceneVars, timeVars, geoVars, multiVars, inputVars, assetVars,
               fpsVars, pumpVars>>
restOfMulti == <<sceneVars, timeVars, geoVars, runVars, inputVars, assetVars,
                 fpsVars, pumpVars>>
restOfInput == <<sceneVars, timeVars, geoVars, runVars, multiVars, assetVars,
                 fpsVars, pumpVars>>
restOfAssets == <<sceneVars, timeVars, geoVars, runVars, multiVars, inputVars,
                  fpsVars, pumpVars>>
restOfFps == <<sceneVars, timeVars, geoVars, runVars, multiVars, inputVars,
               assetVars, pumpVars>>
restOfPump == <<sceneVars, timeVars, geoVars, runVars, multiVars, assetVars,
                fpsVars>>

vars == <<sceneVars, timeVars, geoVars, extVars>>

Min(a, b) == IF a < b THEN a ELSE b

Range(s) == {s[i] : i \in DOMAIN s}

\* The part of the state callbacks can change, as one value.
World ==
  [entities |-> entities, nextEntityID |-> nextEntityID,
   entitiesToRemove |-> entitiesToRemove, ent |-> ent,
   returned |-> returned, wasInScene |-> wasInScene, observe |-> observe]

SetWorld(w) ==
  /\ entities' = w.entities
  /\ nextEntityID' = w.nextEntityID
  /\ entitiesToRemove' = w.entitiesToRemove
  /\ ent' = w.ent
  /\ returned' = w.returned
  /\ wasInScene' = w.wasInScene

\* ids of the entities in the collection
IdsIn(w) == {w.ent[w.entities[i]].ID : i \in DOMAIN w.entities}

\* ------------------------------------------------------- scene operations
\* A plausible slip: the id is derived from the collection's length.
AddEntity_lenId(w, entity) ==
  LET id == Len(w.entities) + 1 IN
  [w EXCEPT !.ent[entity].ID = id,
            !.nextEntityID = @ + 1,
            !.entities = Append(@, entity),
            !.returned = Append(@, id)]

\* Scene.AddEntity
AddEntity(w, entity) ==
  LET id == w.nextEntityID IN
  [w EXCEPT !.ent[entity].ID = id,
            !.nextEntityID = @ + 1,
            !.entities = Append(@, entity),
            !.returned = Append(@, id)]

\* A plausible slip: the entity is dropped from the collection at once.
RemoveEntity_immediate(w, id) ==
  [w EXCEPT !.entities = SelectSeq(@, LAMBDA e : w.ent[e].ID # id)]

\* Scene.RemoveEntity
RemoveEntity(w, id) ==
  [w EXCEPT !.entitiesToRemove = Append(@, id),
            !.wasInScene = IF w.observe = "unknown"
                           THEN Append(@, id \in IdsIn(w)) ELSE @]

\* A plausible slip: the queue is not emptied.
processDeferredRemovals_keepsQueue(w) ==
  IF Len(w.entitiesToRemove) = 0 THEN w
  ELSE LET toRemove == Range(w.entitiesToRemove)
           keep(e) == w.ent[e].ID \notin toRemove
       IN [w EXCEPT !.entities = SelectSeq(@, keep)]

\* A plausible slip: the survivors are collected back to front.
processDeferredRemovals_reversed(w) ==
  IF Len(w.entitiesToRemove) = 0 THEN w
  ELSE LET toRemove == Range(w.entitiesToRemove)
           kept == SelectSeq(w.entities, LAMBDA e : w.ent[e].ID \notin toRemove)
       IN [w EXCEPT !.entities = [i \in 1..Len(kept) |-> kept[Len(kept) + 1 - i]],
                    !.entitiesToRemove = <<>>,
                    !.wasInScene = <<>>]

\* Scene.processDeferredRemovals
processDeferredRemovals(w) ==
  IF Len(w.entitiesToRemove) = 0 THEN w
  ELSE LET toRemove == Range(w.entitiesToRemove)
           keep(e) == w.ent[e].ID \notin toRemove
       IN [w EXCEPT !.entities = SelectSeq(@, keep),
                    !.entitiesToRemove = <<>>,
                    !.wasInScene = <<>>]

\* Scene.GetEntity (Nil when not found)
GetEntity(w, id) ==
  LET hits == {i \in DOMAIN w.entities : w.ent[w.entities[i]].ID = id} IN
  IF hits = {} THEN Nil
  ELSE w.entities[CHOOSE i \in hits : \A j \in hits : i <= j]

\* Scene.GetAllEntities
GetAllEntities(w) == w.entities

\* ------------------------------------------------------------- user code
\* One call made by a behaviour, a collision handler or the code around the
\* frame loop.
Call(op, e, arg) == [op |-> op, e |-> e, arg |-> arg]
NoCall == Call("none", Nil, 0)

\* entity.Transform.Position.X = the other position
MoveAway(w, e) ==
  {Call("move", e, x) : x \in Positions \ {w.ent[e].Transform.Position.X}}

\* the effect of one call
Do(w, c) ==
  CASE c.op = "none" -> w
    [] c.op = "add" -> AddEntity(w, c.e)
    [] c.op = "remove" -> RemoveEntity(w, c.arg)
    [] c.op = "move" -> [w EXCEPT !.ent[c.e].Transform.Position.X = c.arg]
    [] c.op = "active" -> [w EXCEPT !.ent[c.e].Active = (c.arg = 1)]

\* the bounds of the model
Allowed(w, c) ==
  /\ c.op = "add" => w.nextEntityID <= MaxId
  /\ c.op = "remove" => Len(w.entitiesToRemove) < MaxQueue

\* The game of the fixture.  A's behaviour may queue A's own removal; B's
\* behaviour may spawn: it adds an entity, one already in the scene included.
BehaviorCalls(w, self) ==
  CASE self = "A" -> {NoCall, Call("remove", Nil, w.ent[self].ID)}
    [] self = "B" -> {NoCall} \cup {Call("add", e, 0) : e \in Ents}
    [] OTHER -> {NoCall}

\* A's handlers may switch A off; B's enter handler may destroy the other
\* entity, its stay handler may move B away, its exit handler may destroy B;
\* C's stay handler only observes.
HandlerCalls(w, kind, self, other) ==
  CASE self = "A" -> {NoCall, Call("active", self, 0)}
    [] self = "B" /\ kind = "enter" ->
         {NoCall, Call("remove", Nil, w.ent[other].ID)}
    [] self = "B" /\ kind = "stay" -> {NoCall} \cup MoveAway(w, self)
    [] self = "B" /\ kind = "exit" ->
         {NoCall, Call("remove", Nil, w.ent[self].ID)}
    [] OTHER -> {NoCall}

\* The code around the frame loop, between two frames: it adds any entity,
\* queues any id handed out so far or the one handed out next, moves B and
\* switches A on or off.
ExternalCalls(w) ==
  {Call("add", e, 0) : e \in Ents}
  \cup {Call("remove", Nil, id) : id \in 1..Min(w.nextEntityID, MaxId)}
  \cup (IF "B" \in Range(w.entities) THEN MoveAway(w, "B") ELSE {})
  \cup (IF "A" \in Range(w.entities)
        THEN {Call("active", "A", IF w.ent["A"].Active THEN 0 ELSE 1)}
        ELSE {})

\* ------------------------------------------------------ collision detector
\* physics.DetectCollisions over the slice `es` of objects with fields `heap`
DetectCollisions(es, heap) ==
  LET n == Len(es)
      pairAt(k) == <<((k - 1) \div n) + 1, ((k - 1) % n) + 1>>
      all == [k \in 1..(n * n) |-> pairAt(k)]
      collidable(e) == heap[e].Active /\ HasCollider(e)
      hit(p) ==
        /\ p[1] < p[2]
        /\ collidable(es[p[1]])
        /\ collidable(es[p[2]])
        /\ Intersects(ColliderOf(es[p[1]]), ColliderOf(es[p[2]]),
                      heap[es[p[1]]].Transform, heap[es[p[2]]].Transform)
      hits == SelectSeq(all, hit)
  IN [k \in 1..Len(hits) |-> <<es[hits[k][1]], es[hits[k][2]]>>]

\* detectCollisions, lines 495-503: the lookup of an ended pair's entities
findExitPair(w, key) ==
  LET es == w.entities
      asA == {i \in DOMAIN es : w.ent[es[i]].ID = key[1]}
      asB == {i \in DOMAIN es : w.ent[es[i]].ID # key[1]
                                /\ w.ent[es[i]].ID = key[2]}
      last(S) == IF S = {} THEN Nil
                 ELSE es[CHOOSE i \in S : \A j \in S : j <= i]
  IN <<last(asA), last(asB)>>

Event(kind, self, other, key) ==
  [kind |-> kind, self |-> self, other |-> other, key |-> key]

HasHandler(kind, e) ==
  CASE kind = "enter" -> HasOnCollisionEnter(e)
    [] kind = "stay" -> HasOnCollisionStay(e)
    [] kind = "exit" -> HasOnCollisionExit(e)

\* the entity pair and scenario the monitors observe
Collidable(e) == ent[e].Active /\ HasCollider(e)
BothLive(a, b) ==
  /\ a \in Range(entities) /\ b \in Range(entities)
  /\ Collidable(a) /\ Collidable(b)
Overlapping(a, b) ==
  /\ BothLive(a, b)
  /\ Intersects(ColliderOf(a), ColliderOf(b), ent[a].Transform, ent[b].Transform)
Apart(a, b) ==
  /\ BothLive(a, b)
  /\ ~Intersects(ColliderOf(a), ColliderOf(b), ent[a].Transform, ent[b].Transform)

\* phase of the scenario "apart, overlapping for three Updates, apart, apart":
\* 0 after an Update that found the pair apart, 1..3 the consecutive
\* overlapping Updates that followed, 4 and 5 the two separated Updates after
\* the third, -1 anywhere else.
NextPhase(p, ov, ap) ==
  IF ov THEN (IF p \in {0, 1, 2} THEN p + 1 ELSE -1)
  ELSE IF ap THEN (IF p \in {3, 4} THEN p + 1 ELSE 0)
  ELSE -1

\* ------------------------------------------------------------------ timer
\* A float64 between 0 and 2 whose unit in the last place is at least 2^-60
\* is the integer n = value * 2^60, kept as <<n \div 2^30, n % 2^30>>.  All
\* values of the timer are of this kind: frame times of 4 ms and more, dt,
\* maxFrameTime and their sums and differences.
Limb == 2 ^ 30

NumGE(a, b) == a[1] > b[1] \/ (a[1] = b[1] /\ a[2] >= b[2])
NumGT(a, b) == a[1] > b[1] \/ (a[1] = b[1] /\ a[2] > b[2])

\* the sum and the difference (a >= b) as real numbers
ExactAdd(a, b) ==
  LET lo == a[2] + b[2] IN
  IF lo >= Limb THEN <<a[1] + b[1] + 1, lo - Limb>> ELSE <<a[1] + b[1], lo>>
ExactSub(a, b) ==
  IF a[2] >= b[2] THEN <<a[1] - b[1], a[2] - b[2]>>
  ELSE <<a[1] - b[1] - 1, a[2] + Limb - b[2]>>

\* number of binary digits of h
BitLen(h) == IF h = 0 THEN 0 ELSE CHOOSE k \in 1..31 : h \div (2 ^ (k - 1)) = 1

\* IEEE 754 binary64 rounding of a real number: 53 significant bits, round to
\* nearest, ties to even.
RoundFloat64(n) ==
  LET d == BitLen(n[1]) - 23 IN
  IF d <= 0 THEN n
  ELSE LET unit == 2 ^ d
           q == n[2] % unit
           kept == n[2] - q
           up == q * 2 > unit \/ (q * 2 = unit /\ (kept \div unit) % 2 = 1)
           lo == IF up THEN kept + unit ELSE kept
       IN IF lo = Limb THEN <<n[1] + 1, 0>> ELSE <<n[1], lo>>

\* float64 addition and subtraction (a >= b)
FloatAdd(a, b) == RoundFloat64(ExactAdd(a, b))
FloatSub(a, b) == RoundFloat64(ExactSub(a, b))

\* NewTime: dt = 1.0 / 60.0 as a float64 (0.01666666666666666574...)
dt == <<17895697, 71582788>>
\* NewTime: maxFrameTime = 0.25
maxFrameTime == <<2 ^ 28, 0>>
\* Engine.Run: maxUpdateSteps
maxUpdateSteps == 8

\* The elapsed times between two clock samples, in milliseconds.
Durations == {0, 5, 16, 17, 45, 100, 1000}

\* now.Sub(t.lastTime).Seconds(): the float64 nearest to ms / 1000
Seconds(ms) ==
  CASE ms = 0 -> <<0, 0>>
    [] ms = 5 -> <<5368709, 128849019>>
    [] ms = 16 -> <<17179869, 197568496>>
    [] ms = 17 -> <<18253611, 8589936>>
    [] ms = 45 -> <<48318382, 85899344>>
    [] ms = 100 -> <<107374182, 429496736>>
    [] ms = 1000 -> <<Limb, 0>>

\* Time.Tick, lines 75-79: the accumulator is consumed in fixed steps
RECURSIVE Consume(_, _)
Consume(acc, n) ==
  IF NumGE(acc, dt) THEN Consume(FloatSub(acc, dt), n + 1) ELSE <<acc, n>>

\* Time.Tick, lines 68-70: the clamp of the frame time
Clamp(frameTime) ==
  IF NumGT(frameTime, maxFrameTime) THEN maxFrameTime ELSE frameTime

\* Time.Tick on the timer t with the clock sample `now`; the frame timing
\* metrics (lines 55-64) do not bear on the result and are left out.
Tick(t, now) ==
  LET frameTime == Clamp(Seconds(now - t.lastTime))
      r == Consume(FloatAdd(t.accumulator, frameTime), 0)
  IN [accumulator |-> r[1], lastTime |-> now, updateCount |-> r[2],
      frameTime |-> frameTime]

\* A plausible slip: the ceiling is not applied.
CapSteps_none(n) == n

\* Engine.Run, lines 207-209: the ceiling on the ticks of one frame
CapSteps(n) == IF n > maxUpdateSteps THEN maxUpdateSteps ELSE n

\* n * x as a real number
RECURSIVE Times(_, _)
Times(n, x) == IF n = 0 THEN <<0, 0>> ELSE ExactAdd(x, Times(n - 1, x))

\* core.NewTime()
InitTimer ==
  /\ accumulator = <<0, 0>>
  /\ lastTime = 0
  /\ tickCalls = 0
  /\ frameMs = 0
  /\ accBefore = <<0, 0>>
  /\ updateCount = 0
  /\ executed = 0
  /\ elapsedSum = <<0, 0>>
  /\ returnedSum = <<0, 0>>
  /\ executedSum = 0

\* Engine.Run, lines 206-213, seen from the timer: one frame samples the
\* clock, calls Tick and runs the capped number of Scene.Update calls.
TickFrame ==
  /\ tickCalls < MaxCalls
  /\ \E d \in Durations :
       LET r == Tick([accumulator |-> accumulator, lastTime |-> lastTime],
                     lastTime + d)
       IN /\ accumulator' = r.accumulator
          /\ lastTime' = r.lastTime
          /\ updateCount' = r.updateCount
          /\ executed' = CapSteps(r.updateCount)
          /\ frameMs' = d
          /\ elapsedSum' = ExactAdd(elapsedSum, r.frameTime)
          /\ returnedSum' = ExactAdd(returnedSum, Times(r.updateCount, dt))
          /\ executedSum' = executedSum + CapSteps(r.updateCount)
  /\ accBefore' = accumulator
  /\ tickCalls' = tickCalls + 1
  /\ UNCHANGED <<sceneVars, geoVars, extVars>>

NextTime == TickFrame

\* -------------------------------------------------------- collider functions
\* Transform with the given position, no rotation, scale 1
TransformAt(x, y) ==
  [Position |-> [X |-> x, Y |-> y], Rotation |-> 0, Scale |-> [X |-> 1, Y |-> 1]]

\* The layers, masks and relative positions the functions are applied to:
\* two colliders of 2 x 2, the first at the origin; the second overlaps it,
\* touches it at an edge or a corner, or is apart.
Layers == {0, 1, 31, 32, 63, 64}
Masks == {0..31, 0..7, {0}, {1}, {}}
Offsets == {0, 1, 2, 3}

GeoInputs ==
  [layerA : Layers, maskA : Masks, layerB : Layers, maskB : Masks,
   x : Offsets, y : Offsets]

NoGeoInput == [layerA |-> 0, maskA |-> {}, layerB |-> 0, maskB |-> {}, x |-> 0, y |-> 0]
NoGeoOutput == [ab |-> FALSE, ba |-> FALSE, rectAB |-> FALSE, rectBA |-> FALSE]

ColliderA(in) ==
  [NewCollider(2, 2) EXCEPT !.CollisionLayer = in.layerA, !.CollisionMask = in.maskA]
ColliderB(in) ==
  [NewCollider(2, 2) EXCEPT !.CollisionLayer = in.layerB, !.CollisionMask = in.maskB]

InitGeoOff == gPc = "off" /\ gIn = NoGeoInput /\ gOut = NoGeoOutput

\* Collider.Intersects and Rectangle.Intersects applied both ways round
ApplyIntersects ==
  /\ gPc = "in"
  /\ LET a == ColliderA(gIn)
         b == ColliderB(gIn)
         tA == TransformAt(0, 0)
         tB == TransformAt(gIn.x, gIn.y)
     IN gOut' = [ab |-> Intersects(a, b, tA, tB),
                 ba |-> Intersects(b, a, tB, tA),
                 rectAB |-> RectIntersects(GetWorldBounds(a, tA), GetWorldBounds(b, tB)),
                 rectBA |-> RectIntersects(GetWorldBounds(b, tB), GetWorldBounds(a, tA))]
  /\ gPc' = "out"
  /\ UNCHANGED <<gIn, sceneVars, timeVars, extVars>>

NextGeo == ApplyIntersects

\* ------------------------------------------------------ Scene.GetEntitiesAt
\* math.Rectangle.Contains
Contains(r, x, y) ==
  /\ x >= r.X
  /\ x <= r.X + r.Width
  /\ y >= r.Y
  /\ y <= r.Y + r.Height

\* Entity.GetBounds.  The pointer Entity.Collider is a sequence of at most
\* one collider: <<>> is nil.
GetBounds(e) ==
  IF e.Collider # <<>>
  THEN GetWorldBounds(e.Collider[1], e.Transform)
  ELSE [X |-> e.Transform.Position.X, Y |-> e.Transform.Position.Y,
        Width |-> 0, Height |-> 0]

\* Scene.GetEntitiesAt over the slice s.entities.  The result is a slice:
\* isNil tells a nil slice from an empty one.
GetEntitiesAt(ents, x, y) ==
  [isNil |-> FALSE,
   items |-> SelectSeq(ents, LAMBDA entity :
                         entity.Active /\ Contains(GetBounds(entity), x, y))]

\* The scenes and points GetEntitiesAt is applied to: up to two entities on
\* the x axis, active or not, with a collider of 2 x 2 or none; points
\* inside, on the edges and corners of, and outside their rectangles.
AtCoords == {0, 2}
AtPointsX == -2 .. 4
AtPointsY == -2 .. 2
AtEntities ==
  { [ID |-> 0, Active |-> a,
     Transform |-> TransformAt(px, 0),
     Collider |-> c] :
      a \in BOOLEAN, px \in AtCoords, c \in {<<>>, <<NewCollider(2, 2)>>} }
AtScenes ==
  UNION { { [i \in 1..n |-> [f[i] EXCEPT !.ID = i]] : f \in [1..n -> AtEntities] } :
            n \in 0..2 }
AtInputs == [entities : AtScenes, x : AtPointsX, y : AtPointsY]
NoAtOutput == [isNil |-> TRUE, items |-> <<>>]

\* Scene.GetEntitiesAt applied
ApplyGetEntitiesAt ==
  /\ gPc = "at"
  /\ gOut' = GetEntitiesAt(gIn.entities, gIn.x, gIn.y)
  /\ gPc' = "found"
  /\ UNCHANGED <<gIn, sceneVars, timeVars, extVars>>

NextAt == ApplyGetEntitiesAt

\* -------------------------------------------------- Collider.GetWorldBounds
\* gamemath.Transform{Position: ...} with Scale given: the composite literal
\* of the tests leaves Scale at its zero value, scale 0.
TransformOf(x, y, scale) ==
  [TransformAt(x, y) EXCEPT !.Scale = [X |-> scale, Y |-> scale]]

\* The collider sizes, positions, distances on x and scales the functions
\* are applied to: 50 x 50 colliders 10 and 20 apart are the tests' cases.
WbSizes == {2, 50}
WbCoords == {0, 100}
WbDistances == {0, 10, 20, 50, 60}
WbScales == {0, 1, 2}
WbInputs ==
  [w : WbSizes, h : WbSizes, x : WbCoords, y : WbCoords,
   dx : WbDistances, scale : WbScales]
NoRect == [X |-> 0, Y |-> 0, Width |-> 0, Height |-> 0]
NoWbOutput == [boundsA |-> NoRect, boundsB |-> NoRect, rect |-> FALSE, ab |-> FALSE]

\* The collider of the tests: NewCollider(w, h) with mask 0xFF.
WbCollider(in) == [NewCollider(in.w, in.h) EXCEPT !.CollisionMask = 0..7]

\* Collider.GetWorldBounds of two entities and the intersection tests on them
ApplyGetWorldBounds ==
  /\ gPc = "wb"
  /\ LET c == WbCollider(gIn)
         tA == TransformOf(gIn.x, gIn.y, gIn.scale)
         tB == TransformOf(gIn.x + gIn.dx, gIn.y, gIn.scale)
     IN gOut' = [boundsA |-> GetWorldBounds(c, tA),
                 boundsB |-> GetWorldBounds(c, tB),
                 rect |-> RectIntersects(GetWorldBounds(c, tA), GetWorldBounds(c, tB)),
                 ab |-> Intersects(c, c, tA, tB)]
  /\ gPc' = "wbOut"
  /\ UNCHANGED <<gIn, sceneVars, timeVars, extVars>>

NextWb == ApplyGetWorldBounds

\* ------------------------------------------- colliders with malformed data
\* 1 << layer on a Go int: a negative shift count is a run-time panic
\* (collider.go:101-102 shift by the signed CollisionLayer).
ShiftFaults(layer) == layer < 0

\* Collider.Intersects as a call that returns a value or panics: both shifts
\* of lines 101-102 are evaluated before the masks are compared.
IntersectsOutcome(c, other, thisTransform, otherTransform) ==
  IF ShiftFaults(c.CollisionLayer) \/ ShiftFaults(other.CollisionLayer)
  THEN [fault |-> TRUE, value |-> FALSE]
  ELSE [fault |-> FALSE,
        value |-> Intersects(c, other, thisTransform, otherTransform)]

\* Scene.Update on a scene of the entity records `es` (Collider is a sequence
\* of at most one collider): the behaviours of the fixture do nothing, and
\* physics.DetectCollisions calls Intersects for every pair i < j of active
\* entities with a collider; a panic of one call ends Update.
UpdateOutcome(es) ==
  LET collidable(i) == es[i].Active /\ es[i].Collider # <<>>
      tested == {p \in (DOMAIN es) \X (DOMAIN es) :
                   p[1] < p[2] /\ collidable(p[1]) /\ collidable(p[2])}
      call(p) == IntersectsOutcome(es[p[1]].Collider[1], es[p[2]].Collider[1],
                                   es[p[1]].Transform, es[p[2]].Transform)
  IN [fault |-> \E p \in tested : call(p).fault,
      pairs |-> IF \E p \in tested : call(p).fault THEN {}
                ELSE {p \in tested : call(p).value}]

\* The collider data the functions are applied to: negative, zero and
\* positive sizes and scales, layers below 0 and from 64 on, any mask.
MalSizes == {-2, 0, 2}
MalScales == {-1, 0, 1}
MalLayers == {-1, 0, 63, 64}
MalMasks == {{}, {0}, 0..63}
MalInputs ==
  [w : MalSizes, h : MalSizes, scale : MalScales,
   layerA : MalLayers, layerB : MalLayers, mask : MalMasks, active : BOOLEAN]
NoOutcome == [fault |-> FALSE, value |-> FALSE]
NoMalOutput == [intersects |-> NoOutcome, update |-> [fault |-> FALSE, pairs |-> {}]]

\* the collider of the first (layer) and second entity
MalCollider(in, layer) ==
  [NewCollider(in.w, in.h) EXCEPT !.CollisionLayer = layer,
                                  !.CollisionMask = in.mask]

\* Collider.Intersects and Scene.Update applied to two entities at the origin
ApplyMalformed ==
  /\ gPc = "mal"
  /\ LET a == MalCollider(gIn, gIn.layerA)
         b == MalCollider(gIn, gIn.layerB)
         t == TransformOf(0, 0, gIn.scale)
         es == <<[ID |-> 1, Active |-> TRUE, Transform |-> t, Collider |-> <<a>>],
                 [ID |-> 2, Active |-> gIn.active, Transform |-> t,
                  Collider |-> <<b>>]>>
     IN gOut' = [intersects |-> IntersectsOutcome(a, b, t, t),
                 update |-> UpdateOutcome(es)]
  /\ gPc' = "malOut"
  /\ UNCHANGED <<gIn, sceneVars, timeVars, extVars>>

NextMal == ApplyMalformed

\* ------------------------------------------------ colliders under rotation
\* gamemath.Transform{Position, Rotation, Scale}
TransformWith(x, rotation, sx, sy) ==
  [Position |-> [X |-> x, Y |-> 0], Rotation |-> rotation,
   Scale |-> [X |-> sx, Y |-> sy]]

\* The rotations (degrees), sizes, offsets, distances and scales the
\* functions are applied to twice.
Rotations == {0, 45, 90}
RotSizes == {2, 4}
RotOffsets == {0, 1}
RotDistances == {0, 2, 3, 4, 5}
RotScales == {1, 2}
RotInputs ==
  [w : RotSizes, h : RotSizes, off : RotOffsets, dx : RotDistances,
   sx : RotScales, sy : RotScales,
   rotA : Rotations, rotB : Rotations, rotA2 : Rotations, rotB2 : Rotations]
NoRotRun == [boundsA |-> NoRect, boundsB |-> NoRect, ab |-> FALSE, pairs |-> <<>>]
NoRotOutput == [first |-> NoRotRun, second |-> NoRotRun]

\* NewCollider(w, h) with the given Offset and the tests' mask
RotCollider(in) ==
  [NewCollider(in.w, in.h) EXCEPT !.Offset = [X |-> in.off, Y |-> 0],
                                  !.CollisionMask = 0..7]

\* GetWorldBounds and Intersects of two colliders, and DetectCollisions over
\* the scene <<A, B>> of the fixture, with the entities rotated by ra and rb
RotRun(in, ra, rb) ==
  LET c == RotCollider(in)
      tA == TransformWith(0, ra, in.sx, in.sy)
      tB == TransformWith(in.dx, rb, in.sx, in.sy)
      heap == [e \in Ents |->
                 [NewEntityObject EXCEPT !.Transform = IF e = "A" THEN tA ELSE tB]]
  IN [boundsA |-> GetWorldBounds(c, tA),
      boundsB |-> GetWorldBounds(c, tB),
      ab |-> Intersects(c, c, tA, tB),
      pairs |-> DetectCollisions(<<"A", "B">>, heap)]

\* the same colliders and positions run with two choices of rotations
ApplyRotations ==
  /\ gPc = "rot"
  /\ gOut' = [first |-> RotRun(gIn, gIn.rotA, gIn.rotB),
              second |-> RotRun(gIn, gIn.rotA2, gIn.rotB2)]
  /\ gPc' = "rotOut"
  /\ UNCHANGED <<gIn, sceneVars, timeVars, extVars>>

NextRot == ApplyRotations

\* ---------------------------------------------------------------- Engine.Run
\* The game loop runs at most MaxFrames frames and Tick returns at most
\* MaxRunTicks (before the cap).
MaxFrames == 2
MaxRunTicks == 2

\* The scenes Run renders: up to two entities, active or not, with a sprite
\* or without.
RunScenes ==
  UNION { { [i \in 1..n |-> [ID |-> i, Active |-> f[i][1], Sprite |-> f[i][2]]] :
              f \in [1..n -> BOOLEAN \X BOOLEAN] } : n \in 0..2 }

RunEvent(kind, id) == [kind |-> kind, frame |-> eFrame, id |-> id]

\* A plausible slip: the error of DrawSprite is dropped.
EntityRender_dropped(e, fails) == 0

\* Entity.Render: DrawSprite is called when the entity has a sprite; `fails`
\* are the entities whose DrawSprite returns an error.  The result is the
\* entity whose error is returned, 0 for nil.
EntityRender(e, fails) ==
  IF e.Sprite
  THEN IF e.ID \in fails THEN e.ID ELSE 0
  ELSE 0

\* Scene.Render: the range loop from index i on; `draws` are the DrawSprite
\* calls made so far.
RECURSIVE SceneRender(_, _, _, _)
SceneRender(es, fails, i, draws) ==
  IF i > Len(es) THEN [draws |-> draws, err |-> 0]
  ELSE IF es[i].Active
       THEN LET d == IF es[i].Sprite THEN Append(draws, es[i].ID) ELSE draws
                err == EntityRender(es[i], fails)
            IN IF err # 0
               THEN [draws |-> d, err |-> err]
               ELSE SceneRender(es, fails, i + 1, d)
       ELSE SceneRender(es, fails, i + 1, draws)

InitRunOff ==
  /\ eng = [initialized |-> FALSE, scene |-> <<>>]
  /\ ePc = "off"
  /\ running = FALSE
  /\ eTicks = 0
  /\ eFrame = 0
  /\ eResult = "none"
  /\ eLog = <<>>

\* A plausible slip: the flag is reset on the normal exit only.
RunReturn_noDefer(result) ==
  /\ ePc' = "returned"
  /\ eResult' = result
  /\ running' = IF result = "nil" THEN FALSE ELSE running

\* Run returns: the deferred function resets the flag (line 189)
RunReturn(result) ==
  /\ ePc' = "returned"
  /\ eResult' = result
  /\ running' = FALSE

\* Engine.Run, lines 184-189
RunStart ==
  /\ ePc = "idle"
  /\ IF ~eng.initialized
     THEN /\ ePc' = "returned" /\ eResult' = "nil" /\ UNCHANGED running
     ELSE /\ ePc' = "loop" /\ running' = TRUE /\ UNCHANGED eResult
  /\ UNCHANGED <<eng, eTicks, eFrame, eLog, restOfRun>>

\* A plausible slip: the loop does not test the flag.
LoopCondition_forever(flag) == TRUE

\* Engine.Run, line 193: `for e.running`
LoopCondition(flag) == flag

\* Engine.Run, lines 193-209: the loop condition, handleEvents (a quit
\* event may have arrived), the idle wait without a scene, Tick and the cap
RunLoopHead ==
  /\ ePc = "loop"
  /\ \/ /\ ~LoopCondition(running)
        /\ RunReturn("nil")
        /\ UNCHANGED <<eTicks, eFrame, eLog>>
     \/ /\ LoopCondition(running)
        /\ RunReturn("nil")
        /\ eLog' = Append(eLog, RunEvent("quit", 0))
        /\ UNCHANGED <<eTicks, eFrame>>
     \/ /\ LoopCondition(running) /\ eng.scene # <<>> /\ eFrame < MaxFrames
        /\ \E n \in 0..MaxRunTicks :
             /\ eTicks' = CapSteps(n)
             /\ eLog' = Append(eLog, [kind |-> "frame", frame |-> eFrame + 1,
                                       id |-> CapSteps(n)])
        /\ eFrame' = eFrame + 1
        /\ ePc' = "update"
        /\ UNCHANGED <<running, eResult>>
  /\ UNCHANGED <<eng, restOfRun>>

\* Engine.Run, lines 211-213: one Scene.Update; a behaviour or a collision
\* handler may call Engine.Stop
RunUpdate ==
  /\ ePc = "update" /\ eTicks > 0
  /\ eTicks' = eTicks - 1
  /\ \E stop \in BOOLEAN :
       IF stop
       THEN /\ running' = FALSE
            /\ eLog' = eLog \o <<RunEvent("tick", 0), RunEvent("stop", 0)>>
       ELSE /\ UNCHANGED running
            /\ eLog' = Append(eLog, RunEvent("tick", 0))
  /\ UNCHANGED <<eng, ePc, eFrame, eResult, restOfRun>>

\* Engine.Run, lines 217-220: Renderer.Clear, which may fail
RunClear ==
  /\ ePc = "update" /\ eTicks = 0
  /\ \E ok \in BOOLEAN :
       IF ok
       THEN /\ ePc' = "render"
            /\ eLog' = Append(eLog, RunEvent("clear", 0))
            /\ UNCHANGED <<running, eResult>>
       ELSE /\ RunReturn("clear")
            /\ eLog' = Append(eLog, RunEvent("clearFailed", 0))
  /\ UNCHANGED <<eng, eTicks, eFrame, restOfRun>>

\* Engine.Run, lines 223-225: Scene.Render, where any draw may fail
RunRender ==
  /\ ePc = "render"
  /\ \E fails \in SUBSET {eng.scene[1][i].ID : i \in DOMAIN eng.scene[1]} :
       LET r == SceneRender(eng.scene[1], fails, 1, <<>>)
           n == Len(r.draws)
           events == [k \in 1..n |->
                        RunEvent(IF r.draws[k] \in fails THEN "drawFailed" ELSE "draw",
                                 r.draws[k])]
       IN /\ eLog' = eLog \o events
          /\ IF r.err = 0
             THEN ePc' = "present" /\ UNCHANGED <<running, eResult>>
             ELSE RunReturn("render")
  /\ UNCHANGED <<eng, eTicks, eFrame, restOfRun>>

\* Engine.Run, lines 227-245: the UI callback (which may call Engine.Stop),
\* Present, the FPS counter and InputManager.Update
RunPresent ==
  /\ ePc = "present"
  /\ \E stop \in BOOLEAN :
       IF stop
       THEN /\ running' = FALSE
            /\ eLog' = eLog \o <<RunEvent("stop", 0), RunEvent("present", 0)>>
       ELSE /\ UNCHANGED running
            /\ eLog' = Append(eLog, RunEvent("present", 0))
  /\ ePc' = "loop"
  /\ UNCHANGED <<eng, eTicks, eFrame, eResult, restOfRun>>

NextRun ==
  \/ RunStart
  \/ RunLoopHead
  \/ RunUpdate
  \/ RunClear
  \/ RunRender
  \/ RunPresent

\* ------------------------------------------------------------ several scenes
\* Each of the scenes hands out at most MaxSceneId ids.
MaxSceneId == 2
SceneNumbers == {1, 2}
OtherScene(i) == 3 - i

\* core.NewScene()
NewScene == [entities |-> <<>>, nextEntityID |-> 1, entitiesToRemove |-> <<>>]

\* Scene i and the heap as the record the scene methods work on
WorldOf(i) ==
  [entities |-> scenes[i].entities, nextEntityID |-> scenes[i].nextEntityID,
   entitiesToRemove |-> scenes[i].entitiesToRemove, ent |-> objects,
   returned |-> <<>>, wasInScene |-> <<>>, observe |-> "none"]

\* The method has run on scene i and left the record w
SetWorldOf(i, w, op) ==
  /\ scenes' = [scenes EXCEPT ![i] = [entities |-> w.entities,
                                      nextEntityID |-> w.nextEntityID,
                                      entitiesToRemove |-> w.entitiesToRemove]]
  /\ objects' = w.ent
  /\ mLast' = [op |-> op, scene |-> i,
               id |-> IF w.returned = <<>> THEN 0 ELSE w.returned[1],
               before |-> scenes]

InitMultiOff ==
  /\ scenes = <<>>
  /\ objects = <<>>
  /\ mLast = [op |-> "off", scene |-> 0, id |-> 0, before |-> <<>>]

\* scene.AddEntity(entity) on one of the scenes
MultiAdd ==
  /\ \E i \in SceneNumbers, e \in Ents :
       /\ scenes[i].nextEntityID <= MaxSceneId
       /\ SetWorldOf(i, AddEntity(WorldOf(i), e), "add")
  /\ UNCHANGED restOfMulti

\* scene.RemoveEntity(id) on one of the scenes
MultiRemove ==
  /\ \E i \in SceneNumbers, id \in 1..MaxSceneId :
       /\ Len(scenes[i].entitiesToRemove) < MaxQueue
       /\ SetWorldOf(i, RemoveEntity(WorldOf(i), id), "remove")
  /\ UNCHANGED restOfMulti

\* scene.Update(dt) on one of the scenes; the entities are those of
\* TestMultipleScenes, without behaviour, collider or handler, so Update
\* comes to processDeferredRemovals
MultiUpdate ==
  /\ \E i \in SceneNumbers :
       SetWorldOf(i, processDeferredRemovals(WorldOf(i)), "update")
  /\ UNCHANGED restOfMulti

NextMulti == MultiAdd \/ MultiRemove \/ MultiUpdate

\* -------------------------------------------------------------- InputManager
Keys == {"KeySpace", "KeyW", "KeyEscape"}
Actions == {"ActionJump", "ActionMoveUp", "ActionAttack"}
\* InputManager.actionMap after BindAction(ActionJump, KeySpace, KeyW) and
\* BindAction(ActionMoveUp, KeyW); ActionAttack is not bound.
actionMap ==
  [a \in {"ActionJump", "ActionMoveUp"} |->
     IF a = "ActionJump" THEN <<"KeySpace", "KeyW">> ELSE <<"KeyW">>]

\* m[key] of a Go map[KeyCode]bool: false for a missing key
KeyState(m, key) == IF key \in DOMAIN m THEN m[key] ELSE FALSE

\* InputManager.KeyPressed / KeyReleased / KeyHeld
KeyPressed(key) == KeyState(currentKeys, key) /\ ~KeyState(previousKeys, key)
KeyReleased(key) == ~KeyState(currentKeys, key) /\ KeyState(previousKeys, key)
KeyHeld(key) == KeyState(currentKeys, key)

\* InputManager.ActionPressed / ActionReleased / ActionHeld
ActionPressed(action) ==
  IF action \notin DOMAIN actionMap THEN FALSE
  ELSE \E i \in DOMAIN actionMap[action] : KeyPressed(actionMap[action][i])
ActionReleased(action) ==
  IF action \notin DOMAIN actionMap THEN FALSE
  ELSE \E i \in DOMAIN actionMap[action] : KeyReleased(actionMap[action][i])
ActionHeld(action) ==
  IF action \notin DOMAIN actionMap THEN FALSE
  ELSE \E i \in DOMAIN actionMap[action] : KeyHeld(actionMap[action][i])

InitInputOff ==
  /\ currentKeys = <<>> /\ previousKeys = <<>>
  /\ down = {} /\ downAtUpdate = {} /\ eventsSince = {}

\* InputManager.ProcessKeyEvent
ProcessKeyEvent ==
  /\ \E key \in Keys, pressed \in BOOLEAN :
       /\ currentKeys' = [k \in DOMAIN currentKeys \cup {key} |->
                            IF k = key THEN pressed ELSE currentKeys[k]]
       /\ down' = IF pressed THEN down \cup {key} ELSE down \ {key}
       /\ eventsSince' = eventsSince \cup {key}
  /\ UNCHANGED <<previousKeys, downAtUpdate, restOfInput>>

\* A plausible slip: the previous state is not refreshed.
CopyKeys_stale(current, previous) == previous

\* InputManager.Update, lines 219-222: the copy of the current map
CopyKeys(current, previous) == [key \in DOMAIN current |-> current[key]]

\* InputManager.Update
InputUpdate ==
  /\ previousKeys' = CopyKeys(currentKeys, previousKeys)
  /\ downAtUpdate' = down
  /\ eventsSince' = {}
  /\ UNCHANGED <<currentKeys, down, restOfInput>>

NextInput == ProcessKeyEvent \/ InputUpdate

\* -------------------------------------------------------------- AssetManager
\* LoadTexture is not called on a path that has MaxRefs references, and at
\* most MaxTextures textures are created.
MaxRefs == 3
MaxTextures == 4
Paths == {"player.png", "enemy.png"}

\* A plausible slip: a cache hit does not count the new reference.
LoadTexture_noCount(am, path, ok, fresh) ==
  IF path \in DOMAIN am.textures
  THEN [am |-> am, texture |-> am.textures[path], err |-> FALSE]
  ELSE IF ~ok
  THEN [am |-> am, texture |-> 0, err |-> TRUE]
  ELSE [am |-> [textures |-> [p \in DOMAIN am.textures \cup {path} |->
                                IF p = path THEN fresh ELSE am.textures[p]],
                refCount |-> [p \in DOMAIN am.refCount \cup {path} |->
                                IF p = path THEN 1 ELSE am.refCount[p]]],
        texture |-> fresh, err |-> FALSE]

\* AssetManager.LoadTexture on am = [textures, refCount]; `ok` tells whether
\* the file can be opened, decoded and turned into a texture, `fresh` is the
\* texture that is created then.  texture 0 is nil.
LoadTexture(am, path, ok, fresh) ==
  IF path \in DOMAIN am.textures
  THEN [am |-> [am EXCEPT !.refCount[path] = @ + 1],
        texture |-> am.textures[path], err |-> FALSE]
  ELSE IF ~ok
  THEN [am |-> am, texture |-> 0, err |-> TRUE]
  ELSE [am |-> [textures |-> [p \in DOMAIN am.textures \cup {path} |->
                                IF p = path THEN fresh ELSE am.textures[p]],
                refCount |-> [p \in DOMAIN am.refCount \cup {path} |->
                                IF p = path THEN 1 ELSE am.refCount[p]]],
        texture |-> fresh, err |-> FALSE]

\* A plausible slip: the count is decremented without the "not loaded" test:
\* refCount[path]-- on a missing key stores -1.
UnloadTexture_unguarded(am, path) ==
  IF path \notin DOMAIN am.textures
  THEN [am |-> [am EXCEPT !.refCount = [p \in DOMAIN @ \cup {path} |->
                                          IF p = path THEN -1 ELSE @[p]]],
        gone |-> {}]
  ELSE LET count == am.refCount[path] - 1 IN
       IF count <= 0
       THEN [am |-> [textures |-> [p \in DOMAIN am.textures \ {path} |-> am.textures[p]],
                     refCount |-> [p \in DOMAIN am.refCount \ {path} |-> am.refCount[p]]],
             gone |-> {am.textures[path]}]
       ELSE [am |-> [am EXCEPT !.refCount[path] = count], gone |-> {}]

\* AssetManager.UnloadTexture; `gone` are the textures it destroys
UnloadTexture(am, path) ==
  IF path \notin DOMAIN am.textures
  THEN [am |-> am, gone |-> {}]
  ELSE LET count == am.refCount[path] - 1 IN
       IF count <= 0
       THEN [am |-> [textures |-> [p \in DOMAIN am.textures \ {path} |-> am.textures[p]],
                     refCount |-> [p \in DOMAIN am.refCount \ {path} |-> am.refCount[p]]],
             gone |-> {am.textures[path]}]
       ELSE [am |-> [am EXCEPT !.refCount[path] = count], gone |-> {}]

AssetCall(op, path, ok, err, texture) ==
  [op |-> op, path |-> path, ok |-> ok, err |-> err, texture |-> texture]
NoAssetCall == AssetCall("none", "", TRUE, FALSE, 0)

InitAssetsOff ==
  /\ textures = <<>> /\ refCount = <<>>
  /\ nextTexture = 0 /\ destroyed = {} /\ refs = <<>>
  /\ aLast = NoAssetCall

\* assets.LoadTexture(path)
Load ==
  /\ \E path \in Paths, ok \in BOOLEAN :
       LET r == LoadTexture([textures |-> textures, refCount |-> refCount],
                            path, ok, nextTexture)
       IN /\ path \in DOMAIN refCount => refCount[path] < MaxRefs
          /\ path \notin DOMAIN textures => nextTexture <= MaxTextures
          /\ textures' = r.am.textures
          /\ refCount' = r.am.refCount
          /\ nextTexture' = IF r.texture = nextTexture THEN nextTexture + 1
                            ELSE nextTexture
          /\ refs' = IF r.err THEN refs ELSE [refs EXCEPT ![path] = @ + 1]
          /\ aLast' = AssetCall("load", path, ok, r.err, r.texture)
  /\ UNCHANGED <<destroyed, restOfAssets>>

\* assets.UnloadTexture(path)
Unload ==
  /\ \E path \in Paths :
       LET r == UnloadTexture([textures |-> textures, refCount |-> refCount], path)
       IN /\ textures' = r.am.textures
          /\ refCount' = r.am.refCount
          /\ destroyed' = destroyed \cup r.gone
          /\ refs' = [refs EXCEPT ![path] = IF @ > 0 THEN @ - 1 ELSE 0]
          /\ aLast' = AssetCall("unload", path, TRUE, FALSE, 0)
  /\ UNCHANGED <<nextTexture, restOfAssets>>

NextAssets == Load \/ Unload

\* ------------------------------------------------------- the FPS counter
\* The FPS counter is updated at most MaxFpsUpdates times.
MaxFpsUpdates == 2

\* The time one iteration of the game loop takes, in microseconds: loops
\* running at 120, 60 and 30 frames per second.
FramePeriods == {8333, 16667, 33333}

\* the float64 1.0 of line 238
One == <<Limb, 0>>

\* a float64 of the timer's kind in milliseconds, truncated
TimerMillis(t) == ((t[1] \div 1024) * 1000) \div (2 ^ 20)

\* float64(frames) / timer in thousandths of a frame per second, truncated
FramesPer(frames, timer) == (frames * 1000000) \div TimerMillis(timer)

InitFpsOff ==
  /\ fps = 0 /\ frameCount = 0 /\ fpsTimer = <<0, 0>>
  /\ period = 0 /\ wallUs = 0 /\ window = [frames |-> 0, us |-> 0]
  /\ fpsUpdates = 0 /\ shown = -1

\* Engine.Run, lines 235-242, in a frame that took `period` microseconds.
\* The dt of line 237 is the second result of Time.Tick (line 206), the
\* fixed step t.dt (time.go:81).
FpsFrame ==
  /\ fpsUpdates < MaxFpsUpdates
  /\ LET count == frameCount + 1
         timer == FloatAdd(fpsTimer, dt)
         wall == wallUs + period
     IN IF NumGE(timer, One)
        THEN /\ fps' = FramesPer(count, timer)
             /\ frameCount' = 0
             /\ fpsTimer' = <<0, 0>>
             /\ window' = [frames |-> count, us |-> wall]
             /\ wallUs' = 0
             /\ fpsUpdates' = fpsUpdates + 1
        ELSE /\ frameCount' = count
             /\ fpsTimer' = timer
             /\ wallUs' = wall
             /\ UNCHANGED <<fps, window, fpsUpdates>>
  /\ UNCHANGED <<period, shown, restOfFps>>

\* Engine.GetFPS
GetFPS == fps

\* game code reads the counter
ReadFPS ==
  /\ shown' = GetFPS
  /\ UNCHANGED <<fps, frameCount, fpsTimer, period, wallUs, window, fpsUpdates,
                 restOfFps>>

NextFps == FpsFrame \/ ReadFPS

\* --------------------------------------------- the game loop and the keys
\* The loop runs MaxPumpFrames frames; handleEvents finds at most
\* MaxPumpEvents keyboard events pending and Tick returns at most
\* MaxPumpTicks.
MaxPumpFrames == 2
MaxPumpEvents == 2
MaxPumpTicks == 2

\* the keys whose events the pump delivers
PumpKeys == {"KeySpace", "KeyW"}

NoFrame == [pressed |-> {}, seen |-> [k \in PumpKeys |-> 0], ticks |-> 0]

InitPumpOff ==
  /\ pPc = "off" /\ pEvents = 0 /\ pTicks = 0 /\ pFrames = 0
  /\ thisFrame = NoFrame /\ lastFrame = NoFrame

\* handleEvents, lines 253 and 268-269: one pending keyboard event is
\* polled and handed to InputManager.ProcessKeyEvent.
PumpKeyEvent ==
  /\ pPc = "events" /\ pEvents < MaxPumpEvents
  /\ \E key \in PumpKeys, pressed \in BOOLEAN :
       /\ currentKeys' = [k \in DOMAIN currentKeys \cup {key} |->
                            IF k = key THEN pressed ELSE currentKeys[k]]
       /\ down' = IF pressed THEN down \cup {key} ELSE down \ {key}
       /\ eventsSince' = eventsSince \cup {key}
       /\ thisFrame' = IF pressed /\ key \notin down
                       THEN [thisFrame EXCEPT !.pressed = @ \cup {key}]
                       ELSE thisFrame
  /\ pEvents' = pEvents + 1
  /\ UNCHANGED <<previousKeys, downAtUpdate, pPc, pTicks, pFrames, lastFrame,
                 restOfPump>>

\* Engine.Run, lines 195-209: no event is pending, handleEvents returns true
\* and Tick returns this frame's number of ticks.
PumpTick ==
  /\ pPc = "events"
  /\ \E n \in 0..MaxPumpTicks :
       /\ pTicks' = CapSteps(n)
       /\ thisFrame' = [thisFrame EXCEPT !.ticks = CapSteps(n)]
  /\ pPc' = "ticks"
  /\ UNCHANGED <<inputVars, pEvents, pFrames, lastFrame, restOfPump>>

\* Engine.Run, lines 211-213, one iteration: Scene.Update runs the
\* behaviours, which ask KeyPressed for every key.
PumpUpdate ==
  /\ pPc = "ticks" /\ pTicks > 0
  /\ pTicks' = pTicks - 1
  /\ thisFrame' = [thisFrame EXCEPT !.seen =
                     [k \in PumpKeys |-> IF KeyPressed(k) THEN @[k] + 1 ELSE @[k]]]
  /\ UNCHANGED <<inputVars, pPc, pEvents, pFrames, lastFrame, restOfPump>>

\* Engine.Run, lines 216-244: the frame is rendered and presented and
\* InputManager.Update copies the current keys to the previous ones.
PumpEndFrame ==
  /\ pPc = "ticks" /\ pTicks = 0
  /\ previousKeys' = CopyKeys(currentKeys, previousKeys)
  /\ downAtUpdate' = down
  /\ eventsSince' = {}
  /\ lastFrame' = thisFrame
  /\ thisFrame' = NoFrame
  /\ pEvents' = 0
  /\ pFrames' = pFrames + 1
  /\ pPc' = IF pFrames + 1 < MaxPumpFrames THEN "events" ELSE "stopped"
  /\ UNCHANGED <<currentKeys, down, pTicks, restOfPump>>

NextPump == PumpKeyEvent \/ PumpTick \/ PumpUpdate \/ PumpEndFrame

\* The variable groups of the parts that are not running, as constructed
InitOffExcept(part) ==
  /\ part = "run" \/ InitRunOff
  /\ part = "multi" \/ InitMultiOff
  /\ part = "assets" \/ InitAssetsOff
  /\ part = "fps" \/ InitFpsOff
  /\ part \in {"input", "pump"} \/ InitInputOff
  /\ part = "pump" \/ InitPumpOff
InitExtOff == InitOffExcept("none")

\* ------------------------------------------------------------------- Init
\* core.NewScene() and the entity objects of the fixture, not yet added
InitScene ==
  /\ entities = <<>>
  /\ nextEntityID = 1
  /\ entitiesToRemove = <<>>
  /\ previousCollisions = {}
  /\ ent = [e \in Ents |-> NewEntityObject]
  /\ pc = "idle"
  /\ idx = 0
  /\ rangeLen = 0
  /\ collisions = <<>>
  /\ currentCollisions = {}
  /\ exitDone = {}
  /\ ticksLeft = 0
  /\ returned = <<>>
  /\ wasInScene = <<>>
  /\ log = <<>>
  /\ rendered = <<>>
  /\ frameQueued = {}
  /\ selfRemoved = {}
  /\ ghostRemoved = {}
  /\ c7 = -1
  /\ run9 = 0
  /\ stay9 = 0
  /\ prevPairs = {}
  /\ everPairs = {}

Init == InitScene /\ InitTimer /\ InitGeoOff /\ InitExtOff /\ observe = "none"
InitPhases == InitScene /\ InitTimer /\ InitGeoOff /\ InitExtOff /\ observe = "phases"
InitStays == InitScene /\ InitTimer /\ InitGeoOff /\ InitExtOff /\ observe = "stays"
InitUnknown == InitScene /\ InitTimer /\ InitGeoOff /\ InitExtOff /\ observe = "unknown"
InitPairs == InitScene /\ InitTimer /\ InitGeoOff /\ InitExtOff /\ observe = "pairs"
InitGeo ==
  /\ InitScene /\ InitTimer /\ InitExtOff /\ observe = "none"
  /\ gPc = "in" /\ gIn \in GeoInputs /\ gOut = NoGeoOutput

InitAt ==
  /\ InitScene /\ InitTimer /\ InitExtOff /\ observe = "none"
  /\ gPc = "at" /\ gIn \in AtInputs /\ gOut = NoAtOutput

InitRun ==
  /\ InitScene /\ InitTimer /\ InitGeoOff /\ InitOffExcept("run") /\ observe = "none"
  /\ eng \in [initialized : BOOLEAN, scene : {<<>>} \cup {<<es>> : es \in RunScenes}]
  /\ ePc = "idle"
  /\ running = FALSE
  /\ eTicks = 0
  /\ eFrame = 0
  /\ eResult = "none"
  /\ eLog = <<>>

InitMulti ==
  /\ InitScene /\ InitTimer /\ InitGeoOff /\ InitOffExcept("multi") /\ observe = "none"
  /\ scenes = [i \in SceneNumbers |-> NewScene]
  /\ objects = [e \in Ents |-> NewEntityObject]
  /\ mLast = [op |-> "none", scene |-> 0, id |-> 0, before |-> <<>>]

\* input.NewInputManager()
InitInput ==
  /\ InitScene /\ InitTimer /\ InitGeoOff /\ InitOffExcept("input") /\ observe = "none"
  /\ currentKeys = <<>> /\ previousKeys = <<>>
  /\ down = {} /\ downAtUpdate = {} /\ eventsSince = Keys

\* graphics.NewAssetManager(renderer)
InitAssets ==
  /\ InitScene /\ InitTimer /\ InitGeoOff /\ InitOffExcept("assets") /\ observe = "none"
  /\ textures = <<>> /\ refCount = <<>>
  /\ nextTexture = 1 /\ destroyed = {}
  /\ refs = [p \in Paths |-> 0]
  /\ aLast = NoAssetCall

\* NewEngine (fps, frameCount and fpsTimer are left at zero) running at
\* one of the frame rates
InitFps ==
  /\ InitScene /\ InitTimer /\ InitGeoOff /\ InitOffExcept("fps") /\ observe = "none"
  /\ fps = 0 /\ frameCount = 0 /\ fpsTimer = <<0, 0>>
  /\ period \in FramePeriods
  /\ wallUs = 0 /\ window = [frames |-> 0, us |-> 0]
  /\ fpsUpdates = 0 /\ shown = -1

\* NewEngine with a scene set; Run has reached its loop
InitPump ==
  /\ InitScene /\ InitTimer /\ InitGeoOff /\ InitOffExcept("pump") /\ observe = "none"
  /\ currentKeys = <<>> /\ previousKeys = <<>>
  /\ down = {} /\ downAtUpdate = {} /\ eventsSince = {}
  /\ pPc = "events" /\ pEvents = 0 /\ pTicks = 0 /\ pFrames = 0
  /\ thisFrame = NoFrame /\ lastFrame = NoFrame

InitWb ==
  /\ InitScene /\ InitTimer /\ InitExtOff /\ observe = "none"
  /\ gPc = "wb" /\ gIn \in WbInputs /\ gOut = NoWbOutput

InitMal ==
  /\ InitScene /\ InitTimer /\ InitExtOff /\ observe = "none"
  /\ gPc = "mal" /\ gIn \in MalInputs /\ gOut = NoMalOutput

InitRot ==
  /\ InitScene /\ InitTimer /\ InitExtOff /\ observe = "none"
  /\ gPc = "rot" /\ gIn \in RotInputs /\ gOut = NoRotOutput

loopVars == <<pc, idx, rangeLen, collisions, currentCollisions, exitDone, ticksLeft>>
tickHist == <<log, selfRemoved, ghostRemoved>>
pairHist == <<prevPairs, everPairs>>
monitors == <<observe, c7, run9, stay9, pairHist>>
worldVars == <<entities, nextEntityID, entitiesToRemove, ent, returned, wasInScene>>

\* ---------------------------------------------------------------- actions
\* Code outside the loop (set-up code, the UI callback that runs between
\* Render and Present, a test driving the scene) makes one call.
External ==
  /\ pc = "idle"
  /\ \E c \in ExternalCalls(World) :
       /\ Allowed(World, c)
       /\ SetWorld(Do(World, c))
  /\ UNCHANGED <<previousCollisions, loopVars, tickHist, monitors, rendered, frameQueued>>
  /\ UNCHANGED <<timeVars, geoVars, extVars>>

\* A plausible slip: the update pass does not test the Active flag.
NextInvoked_all(w, i, n) ==
  LET S == {j \in i..n : HasBehavior(w.entities[j])}
  IN IF S = {} THEN n + 1 ELSE CHOOSE j \in S : \A k \in S : j <= k

\* Scene.Update, lines 436-440: the iterations from index i on that do not
\* reach Behavior.Update (entity inactive, or no behaviour) change nothing;
\* the result is the index of the next iteration that does, or n + 1.
NextInvoked(w, i, n) ==
  LET invoked(j) == w.ent[w.entities[j]].Active /\ HasBehavior(w.entities[j])
      S == {j \in i..n : invoked(j)}
  IN IF S = {} THEN n + 1 ELSE CHOOSE j \in S : \A k \in S : j <= k

\* Scene.Update is entered, line 436: the range loop evaluates s.entities
\* once.
EnterUpdate ==
  /\ pc' = "update"
  /\ idx' = NextInvoked(World, 1, Len(entities))
  /\ rangeLen' = Len(entities)
  /\ log' = <<>>
  /\ selfRemoved' = {}
  /\ ghostRemoved' = {}

\* Engine.Run, lines 206-212: the scheduler returns n ticks for this frame
\* and the first of them starts.
BeginFrame ==
  /\ pc = "idle"
  /\ \E n \in 0..MaxTicksPerFrame :
       /\ ticksLeft' = n
       /\ IF n > 0 THEN EnterUpdate
          ELSE pc' = "render" /\ UNCHANGED <<idx, rangeLen, tickHist>>
  /\ frameQueued' = Range(entitiesToRemove) \cap IdsIn(World)
  /\ UNCHANGED <<previousCollisions, worldVars, collisions, currentCollisions,
                 exitDone, monitors, rendered>>
  /\ UNCHANGED <<timeVars, geoVars, extVars>>

\* Scene.Update, lines 436-440, one iteration: entity.Update(dt).
UpdateEntity ==
  /\ pc = "update" /\ idx <= rangeLen
  /\ LET e == entities[idx] IN
     \E c \in BehaviorCalls(World, e) :
       /\ Allowed(World, c)
       /\ SetWorld(Do(World, c))
       /\ idx' = NextInvoked(Do(World, c), idx + 1, rangeLen)
       /\ log' = Append(log, Event("update", e, Nil, <<0, 0>>))
       /\ selfRemoved' = IF c.op = "remove" THEN selfRemoved \cup {e}
                         ELSE selfRemoved
  /\ UNCHANGED <<previousCollisions, pc, rangeLen, collisions, currentCollisions,
                 exitDone, ticksLeft, ghostRemoved, monitors, rendered, frameQueued>>
  /\ UNCHANGED <<timeVars, geoVars, extVars>>

\* detectCollisions, lines 452-461: the pair list of this tick.
Detect ==
  /\ pc = "update" /\ idx > rangeLen
  /\ collisions' = DetectCollisions(entities, ent)
  /\ currentCollisions' = {}
  /\ exitDone' = {}
  /\ idx' = 1
  /\ pc' = "dispatch"
  /\ c7' = IF observe = "phases"
            THEN NextPhase(c7, Overlapping("A", "B"), Apart("A", "B")) ELSE c7
  /\ run9' = IF observe # "stays" THEN run9
             ELSE IF run9 >= 0 /\ run9 < MaxRun /\ Overlapping("A", "B")
             THEN run9 + 1 ELSE -1
  /\ stay9' = IF run9' = -1 THEN 0 ELSE stay9
  /\ UNCHANGED <<observe, pairHist>>
  /\ UNCHANGED <<previousCollisions, worldVars, rangeLen, ticksLeft,
                 tickHist, rendered, frameQueued>>
  /\ UNCHANGED <<timeVars, geoVars, extVars>>

\* A plausible slip: a callback is made only on an entity that is still
\* active when its pair is dispatched.
CallBoth_activeOnly(kind, a, b, key) ==
  LET w0 == World
      ha == HasHandler(kind, a) /\ w0.ent[a].Active
      hb == HasHandler(kind, b) /\ w0.ent[b].Active
  IN \E ca \in (IF ha THEN HandlerCalls(w0, kind, a, b) ELSE {NoCall}) :
       /\ Allowed(w0, ca)
       /\ LET w1 == Do(w0, ca) IN
          \E cb \in (IF hb THEN HandlerCalls(w1, kind, b, a) ELSE {NoCall}) :
            /\ Allowed(w1, cb)
            /\ SetWorld(Do(w1, cb))
       /\ log' = log \o (IF ha THEN <<Event(kind, a, b, key)>> ELSE <<>>)
                     \o (IF hb THEN <<Event(kind, b, a, key)>> ELSE <<>>)
       /\ stay9' = IF observe = "stays" /\ run9 >= 0 /\ kind = "stay"
                      /\ {a, b} = {"A", "B"}
                   THEN stay9 + 1 ELSE stay9

\* The two callbacks of one pair, entityA's first; `kind` was decided before
\* the first of them ran.
CallBoth(kind, a, b, key) ==
  LET w0 == World
      ha == HasHandler(kind, a)
      hb == HasHandler(kind, b)
  IN \E ca \in (IF ha THEN HandlerCalls(w0, kind, a, b) ELSE {NoCall}) :
       /\ Allowed(w0, ca)
       /\ LET w1 == Do(w0, ca) IN
          \E cb \in (IF hb THEN HandlerCalls(w1, kind, b, a) ELSE {NoCall}) :
            /\ Allowed(w1, cb)
            /\ SetWorld(Do(w1, cb))
       /\ log' = log \o (IF ha THEN <<Event(kind, a, b, key)>> ELSE <<>>)
                     \o (IF hb THEN <<Event(kind, b, a, key)>> ELSE <<>>)
       /\ stay9' = IF observe = "stays" /\ run9 >= 0 /\ kind = "stay"
                      /\ {a, b} = {"A", "B"}
                   THEN stay9 + 1 ELSE stay9

\* detectCollisions, lines 464-490, one iteration.
Dispatch ==
  /\ pc = "dispatch" /\ idx <= Len(collisions)
  /\ LET entityA == collisions[idx][1]
         entityB == collisions[idx][2]
         pairKey == newCollisionPairKey(ent[entityA].ID, ent[entityB].ID)
     IN /\ currentCollisions' = currentCollisions \cup {pairKey}
        /\ CallBoth(IF pairKey \in previousCollisions THEN "stay" ELSE "enter",
                    entityA, entityB, pairKey)
  /\ idx' = idx + 1
  /\ UNCHANGED <<previousCollisions, pc, rangeLen, collisions, exitDone, ticksLeft,
                 selfRemoved, ghostRemoved, observe, c7, run9, pairHist, rendered,
                 frameQueued>>
  /\ UNCHANGED <<timeVars, geoVars, extVars>>

\* detectCollisions, lines 493-494: the keys of ended pairs not yet visited
Ended == (previousCollisions \ currentCollisions) \ exitDone

\* A plausible slip: the callbacks of an ended pair run as soon as one of
\* its entities is found.
BothFound_either(found) == found[1] # Nil \/ found[2] # Nil

\* detectCollisions, line 506: entityA != nil && entityB != nil
BothFound(found) == found[1] # Nil /\ found[2] # Nil

\* detectCollisions, lines 493-514, one iteration for an ended pair; the map
\* is ranged over in an unspecified order.
Exit ==
  /\ pc = "dispatch" /\ idx > Len(collisions)
  /\ \E key \in Ended :
       LET found == findExitPair(World, key) IN
       /\ exitDone' = exitDone \cup {key}
       /\ IF BothFound(found)
          THEN CallBoth("exit", found[1], found[2], key)
          ELSE UNCHANGED <<worldVars, log, stay9>>
  /\ UNCHANGED <<previousCollisions, pc, idx, rangeLen, collisions,
                 currentCollisions, ticksLeft, selfRemoved, ghostRemoved, observe,
                 c7, run9, pairHist, rendered, frameQueued>>
  /\ UNCHANGED <<timeVars, geoVars, extVars>>

\* the pairs of objects of a pair list
PairsOf(pairs) == {{pairs[k][1], pairs[k][2]} : k \in DOMAIN pairs}

\* A plausible slip: the history keeps the pairs of older ticks too.
NextHistory_union(previous, current) == previous \cup current

\* detectCollisions, line 518: s.previousCollisions = currentCollisions
NextHistory(previous, current) == current

\* detectCollisions, line 518, and its return: the locals go out of scope.
EndDetect ==
  /\ pc = "dispatch" /\ idx > Len(collisions) /\ Ended = {}
  /\ previousCollisions' = NextHistory(previousCollisions, currentCollisions)
  /\ pc' = "removal"
  /\ idx' = 0 /\ rangeLen' = 0
  /\ collisions' = <<>> /\ currentCollisions' = {} /\ exitDone' = {}
  /\ prevPairs' = IF observe = "pairs" THEN PairsOf(collisions) ELSE prevPairs
  /\ everPairs' = IF observe = "pairs" THEN everPairs \cup prevPairs
                  ELSE everPairs
  /\ UNCHANGED <<worldVars, ticksLeft, tickHist, observe, c7, run9, stay9,
                 rendered, frameQueued>>
  /\ UNCHANGED <<timeVars, geoVars, extVars>>

\* An object the scene no longer holds is unreachable; its name stands for a
\* newly allocated entity from then on.
Collect(w) ==
  [w EXCEPT !.ent = [e \in Ents |-> IF e \in Range(w.entities) THEN w.ent[e]
                                    ELSE NewEntityObject]]

\* Scene.Update, line 446.
ProcessRemovals ==
  /\ pc = "removal"
  /\ SetWorld(Collect(processDeferredRemovals(World)))
  /\ ghostRemoved' =
       IF observe # "unknown" THEN {}
       ELSE {e \in Range(entities) \ Range(entities') :
               ~\E i \in DOMAIN entitiesToRemove :
                  entitiesToRemove[i] = ent[e].ID /\ wasInScene[i]}
  /\ pc' = "done"
  /\ LET gone == ~({"A", "B"} \subseteq Range(entities')) IN
     /\ c7' = IF observe = "phases" /\ gone THEN -1 ELSE c7
     /\ run9' = IF observe = "stays" /\ gone THEN -1 ELSE run9
     /\ stay9' = IF run9' = -1 THEN 0 ELSE stay9
  /\ prevPairs' = {q \in prevPairs : q \subseteq Range(entities')}
  /\ everPairs' = {q \in everPairs : q \subseteq Range(entities')}
  /\ UNCHANGED <<previousCollisions, idx, rangeLen, collisions, currentCollisions,
                 exitDone, ticksLeft, log, selfRemoved, observe, rendered,
                 frameQueued>>
  /\ UNCHANGED <<timeVars, geoVars, extVars>>

\* Scene.Update returns; Engine.Run, line 211: the next tick of the frame
\* starts, or the loop ends.
Return ==
  /\ pc = "done"
  /\ ticksLeft' = ticksLeft - 1
  /\ IF ticksLeft > 1 THEN EnterUpdate
     ELSE /\ pc' = "render"
          /\ idx' = 0 /\ rangeLen' = 0
          /\ log' = <<>> /\ selfRemoved' = {} /\ ghostRemoved' = {}
  /\ collisions' = <<>> /\ currentCollisions' = {} /\ exitDone' = {}
  /\ UNCHANGED <<previousCollisions, worldVars, monitors, rendered, frameQueued>>
  /\ UNCHANGED <<timeVars, geoVars, extVars>>

\* Scene.Render
Render ==
  /\ pc = "render"
  /\ rendered' = SelectSeq(entities, LAMBDA e : ent[e].Active /\ HasSprite(e))
  /\ pc' = "present"
  /\ UNCHANGED <<previousCollisions, worldVars, idx, rangeLen, collisions,
                 currentCollisions, exitDone, ticksLeft, tickHist, monitors,
                 frameQueued>>
  /\ UNCHANGED <<timeVars, geoVars, extVars>>

\* Engine.Run, lines 227-245: UI callback, Present, counters; the frame ends.
Present ==
  /\ pc = "present"
  /\ pc' = "idle"
  /\ rendered' = <<>>
  /\ frameQueued' = {}
  /\ UNCHANGED <<previousCollisions, worldVars, idx, rangeLen, collisions,
                 currentCollisions, exitDone, ticksLeft, tickHist, monitors>>
  /\ UNCHANGED <<timeVars, geoVars, extVars>>

Next ==
  \/ External
  \/ BeginFrame
  \/ UpdateEntity
  \/ Detect
  \/ Dispatch
  \/ Exit
  \/ EndDetect
  \/ ProcessRemovals
  \/ Return
  \/ Render
  \/ Present

Spec == Init /\ [][Next]_vars
\* the same program with one observer switched on
SpecPhases == InitPhases /\ [][Next]_vars
SpecStays == InitStays /\ [][Next]_vars
SpecUnknown == InitUnknown /\ [][Next]_vars
SpecPairs == InitPairs /\ [][Next]_vars
\* the timer and the frame loop's use of it
SpecTime == Init /\ [][NextTime]_vars
\* the collider functions on chosen arguments
SpecGeo == InitGeo /\ [][NextGeo]_vars
SpecAt == InitAt /\ [][NextAt]_vars
SpecWb == InitWb /\ [][NextWb]_vars
SpecRun == InitRun /\ [][NextRun]_vars
SpecMulti == InitMulti /\ [][NextMulti]_vars
SpecInput == InitInput /\ [][NextInput]_vars
SpecAssets == InitAssets /\ [][NextAssets]_vars
SpecFps == InitFps /\ [][NextFps]_vars
SpecPump == InitPump /\ [][NextPump]_vars
SpecMal == InitMal /\ [][NextMal]_vars
SpecRot == InitRot /\ [][NextRot]_vars

\* ---------------------------------------------------------------- claims
\* the number of calls of `kind` made so far in this tick on `self` with
\* `other` as partner
Calls(kind, self, other) ==
  Cardinality({i \in DOMAIN log : /\ log[i].kind = kind
                                  /\ log[i].self = self
                                  /\ log[i].other = other})

\* C1: an entity whose behaviour queued its own id during an Update is in the
\* collection until that Update's removal step and absent once Update has
\* returned.
C1_DeferredRemoval ==
  \A e \in selfRemoved :
    /\ pc \in {"update", "dispatch", "removal"}
         => e \in Range(GetAllEntities(World))
    /\ pc = "done"
         => /\ e \notin Range(GetAllEntities(World))
            /\ \A id \in 1..MaxId : GetEntity(World, id) # e

\* C1, the case: the behaviour of A queued A's id and the Update has returned.
C1_Case == pc = "done" /\ "A" \in selfRemoved

\* C2: an entity in the scene whose id was queued before a frame began is not
\* updated and not rendered in that frame.
C2_NotUpdatedNotRendered ==
  /\ \A i \in DOMAIN log :
       log[i].kind = "update" => ent[log[i].self].ID \notin frameQueued
  /\ \A i \in DOMAIN rendered : ent[rendered[i]].ID \notin frameQueued

\* C2, the case: a frame runs while an entity of the scene is queued.
C2_Case == pc \in {"update", "present"} /\ frameQueued # {}

\* C3: no entity is ever removed because of a RemoveEntity call made while no
\* entity of the scene had the id.
C3_UnknownIdIsNoOp == ghostRemoved = {}

\* C3, the case: an id no entity of the scene has is in the removal queue.
C3_Case ==
  /\ observe = "unknown"
  /\ \E i \in DOMAIN wasInScene : ~wasInScene[i]

\* C4: the ids returned by AddEntity start at 1 and are strictly increasing,
\* so none is returned twice, whatever was removed in between.
C4_IdsStrictlyIncreasing ==
  /\ Len(returned) >= 1 => returned[1] = 1
  /\ \A i, j \in DOMAIN returned : i < j => returned[i] < returned[j]

\* C4, the case: AddEntity has returned an id after an Update removed the
\* holder of an earlier one (the collection is shorter than the list of ids
\* and its last entity holds the last id returned).
C4_Case ==
  /\ Len(returned) >= 2
  /\ Len(entities) >= 1 /\ Len(entities) < Len(returned)
  /\ \A i, j \in DOMAIN entities : i # j => entities[i] # entities[j]
  /\ ent[entities[Len(entities)]].ID = returned[Len(returned)]
  /\ \E i \in DOMAIN returned : returned[i] \notin IdsIn(World)

\* C5: the ID of an entity of the scene does not change while the entity
\* stays in the scene.
C5_IdNeverChanges ==
  [][\A e \in Ents :
       (e \in Range(entities) /\ e \in Range(entities'))
         => ent'[e].ID = ent[e].ID]_vars

\* C5, the case: AddEntity is called with an entity that is in the scene.
C5_Case ==
  \E e \in Ents :
    /\ e \in Range(entities)
    /\ Cardinality({i \in DOMAIN entities : entities[i] = e}) >= 2

\* C6: no entity object occurs at two indexes of the collection.
C6_NoDuplicate ==
  \A i, j \in DOMAIN entities : i # j => entities[i] # entities[j]

\* C6, the case: three AddEntity calls have been made and the scene holds
\* fewer than three distinct entities.
C6_Case ==
  /\ Len(returned) = 3
  /\ Cardinality(Range(entities)) < 3

\* the collision callbacks made so far in this tick for the pair (A, B)
PairCalls(kind) == <<Calls(kind, "A", "B"), Calls(kind, "B", "A")>>

\* C7: A and B found apart, then overlapping in three consecutive Updates, then
\* apart in two: the first overlapping Update delivers one enter to each and
\* nothing else, the second and third one stay to each and nothing else, the
\* first Update apart one exit to each and nothing else, the next nothing.
C7_EnterStayStayExit ==
  pc = "removal" =>
    LET got == <<PairCalls("enter"), PairCalls("stay"), PairCalls("exit")>>
        one == <<1, 1>>
        none == <<0, 0>>
    IN /\ c7 = 1 => got = <<one, none, none>>
       /\ c7 \in {2, 3} => got = <<none, one, none>>
       /\ c7 = 4 => got = <<none, none, one>>
       /\ c7 = 5 => got = <<none, none, none>>

\* C7, the case: the whole scenario has run, the callbacks of its last Update
\* are complete.
C7_Case == pc = "removal" /\ c7 = 5

\* C8: every enter callback of this tick is made once for its entity and
\* pair, has another entity as partner, and the partner gets the matching
\* call; both are entities of the scene, and no third entity gets an enter
\* call for the pair's key.
C8_EnterOncePerEntity ==
  \A i \in DOMAIN log :
    log[i].kind = "enter" =>
      LET ev == log[i] IN
      /\ ev.self # ev.other
      /\ pc \in {"dispatch", "removal"}
           => {ev.self, ev.other} \subseteq Range(entities)
      /\ Cardinality({j \in DOMAIN log : /\ log[j].kind = "enter"
                                         /\ log[j].self = ev.self
                                         /\ log[j].key = ev.key}) = 1
      /\ HasOnCollisionEnter(ev.other) =>
           \/ \E j \in DOMAIN log : log[j] = Event("enter", ev.other, ev.self, ev.key)
           \/ pc = "dispatch" /\ i = Len(log)
      /\ \A j \in DOMAIN log :
           (log[j].kind = "enter" /\ log[j].key = ev.key)
             => log[j].self \in {ev.self, ev.other}

\* C8, the case: a tick has delivered enter to both entities of a pair.
C8_Case ==
  /\ pc = "removal"
  /\ Calls("enter", "A", "B") = 1 /\ Calls("enter", "B", "A") = 1

\* C9: when A and B have overlapped in each of the first N Updates of the
\* scene, OnCollisionStay has been invoked at least N times on an entity of
\* the pair once the callbacks of the N-th Update are complete.
C9_StayPerOverlappingUpdate ==
  (pc = "removal" /\ run9 >= 1) => stay9 >= run9

\* C9, the case: the first MaxRun Updates of the scene all found A and B
\* overlapping.
C9_Case == pc = "removal" /\ run9 = MaxRun

\* C10: an exit callback is made only for two entities of the scene that hold
\* the two ids of the ended pair, and when detectCollisions returns every
\* pair of the collision history has both its ids in the scene.
C10_ExitOnlyForLivePairs ==
  /\ pc = "dispatch" =>
       \A i \in DOMAIN log :
         log[i].kind = "exit" =>
           /\ {log[i].self, log[i].other} \subseteq Range(entities)
           /\ {ent[log[i].self].ID, ent[log[i].other].ID}
                = {log[i].key[1], log[i].key[2]}
  /\ pc = "removal" =>
       \A key \in previousCollisions : {key[1], key[2]} \subseteq IdsIn(World)

\* C10, the case: two entities were added, collided as the pair (1, 2), one
\* of them has been removed, and the exit loop of the next tick has visited
\* the pair without making a call for it.
C10_Case ==
  /\ pc = "dispatch"
  /\ Len(returned) = 2 /\ Len(entities) = 1
  /\ <<1, 2>> \in exitDone
  /\ Cardinality({1, 2} \cap IdsIn(World)) = 1
  /\ \A i \in DOMAIN log : log[i].key # <<1, 2>>

\* the pair keys of a pair list, with the ids the entities hold now
KeysOf(pairs) ==
  {newCollisionPairKey(ent[pairs[k][1]].ID, ent[pairs[k][2]].ID) :
     k \in DOMAIN pairs}

\* C11: when detectCollisions returns, the stored pair set is the set of the
\* pairs that passed the intersection test in this Update; a stay callback
\* is made only for two entities that collided in the Update before, and an
\* enter callback only for a key the stored set does not hold.
C11_OneTickOfHistory ==
  /\ [][(pc = "dispatch" /\ pc' = "removal")
          => previousCollisions' = KeysOf(collisions)]_vars
  /\ [](pc = "dispatch" =>
          \A i \in DOMAIN log :
            /\ log[i].kind = "stay" => {log[i].self, log[i].other} \in prevPairs
            /\ log[i].kind = "enter" => log[i].key \notin previousCollisions)

\* C11, the case: A and B collided in some earlier Update, not in the Update
\* before this one, and collide again: both have received enter.
C11_Case ==
  /\ pc = "dispatch"
  /\ {"A", "B"} \in everPairs \ prevPairs
  /\ Calls("enter", "A", "B") = 1 /\ Calls("enter", "B", "A") = 1
  /\ Calls("stay", "A", "B") = 0

\* the kinds of the collision callbacks
CallbackKinds == {"enter", "stay", "exit"}

\* C12: in one Update no behaviour is invoked after the pair list has been
\* computed or a collision callback has run, and the collection loses
\* entities only in the removal step, after the last callback of the tick.
C12_PhasesInOrder ==
  /\ [](\A i, j \in DOMAIN log :
          (i < j /\ log[j].kind = "update") => log[i].kind = "update")
  /\ [][/\ pc \in {"dispatch", "removal", "done"} =>
             \A i \in DOMAIN log' : i > Len(log) => log'[i].kind # "update"
        /\ pc \in {"removal", "done"} =>
             \A i \in DOMAIN log' : i > Len(log) => log'[i].kind \notin CallbackKinds
        /\ Len(entities') < Len(entities) => pc = "removal"
        /\ (entitiesToRemove # <<>> /\ entitiesToRemove' = <<>>) => pc = "removal"
       ]_vars

\* C12, the case: an Update has run a behaviour that queued a removal, then
\* collision callbacks, then applied the removal.
C12_Case ==
  /\ pc = "done"
  /\ "A" \in selfRemoved /\ "A" \notin Range(entities)
  /\ \E i, j \in DOMAIN log :
       /\ i < j
       /\ log[i].kind = "update" /\ log[i].self = "A"
       /\ log[j].kind \in CallbackKinds /\ log[j].self = "A"

\* C13: a behaviour is invoked only on an active entity, the pair list holds
\* only entities that are active when it is computed and enter and stay
\* callbacks are made only for pairs of that list, Render draws only active
\* entities; an inactive entity of the scene is still returned by
\* GetEntity and contained in GetAllEntities.
C13_InactiveSkipped ==
  /\ [][/\ \A i \in DOMAIN log' :
             (i > Len(log) /\ log'[i].kind = "update") => ent[log'[i].self].Active
        /\ (pc = "update" /\ pc' = "dispatch") =>
             \A k \in DOMAIN collisions' :
               ent[collisions'[k][1]].Active /\ ent[collisions'[k][2]].Active
        /\ pc' = "present" => \A i \in DOMAIN rendered' : ent[rendered'[i]].Active
       ]_vars
  /\ [](pc = "dispatch" =>
          \A i \in DOMAIN log :
            log[i].kind \in {"enter", "stay"} =>
              \E k \in 1..(idx - 1) :
                {collisions[k][1], collisions[k][2]} = {log[i].self, log[i].other})
  /\ [](\A e \in Range(entities) :
          ~ent[e].Active =>
            /\ e \in Range(GetAllEntities(World))
            /\ GetEntity(World, ent[e].ID) = e)

\* C13, the case: A is inactive and in the scene at the place of B; the tick
\* has invoked B's behaviour and finished its callbacks with no call on A.
C13_Case ==
  /\ pc = "dispatch" /\ idx > Len(collisions)
  /\ {"A", "B"} \subseteq Range(entities)
  /\ ~ent["A"].Active /\ ent["B"].Active
  /\ Intersects(ColliderOf("A"), ColliderOf("B"), ent["A"].Transform,
                ent["B"].Transform)
  /\ \E i \in DOMAIN log : log[i].kind = "update" /\ log[i].self = "B"
  /\ \A i \in DOMAIN log : log[i].self # "A"

\* C14: after every Tick the accumulator is at least 0 and less than dt, the
\* sum of updateCount * dt over all calls does not exceed the sum of the
\* clamped elapsed times and is less than dt below it; one call with 0.1 s
\* elapsed on a new timer returns 6.
C14_TickAccounting ==
  /\ NumGE(accumulator, <<0, 0>>) /\ NumGT(dt, accumulator)
  /\ NumGE(elapsedSum, returnedSum)
  /\ NumGT(dt, ExactSub(elapsedSum, returnedSum))
  /\ (tickCalls = 1 /\ frameMs = 100) => updateCount = 6

\* C14, the case: Tick has been called several times and has returned
\* updates.
C14_Case == tickCalls >= 2 /\ NumGT(returnedSum, dt) /\ updateCount >= 1

\* C15: a Tick whose elapsed time exceeds the cap returns 15, whatever the
\* accumulator held before.
C15_StallClamp == (tickCalls >= 1 /\ frameMs = 1000) => updateCount = 15

\* C15, the case: a stalled frame arrives while the accumulator holds a
\* remainder of earlier calls.
C15_Case ==
  /\ tickCalls >= 2 /\ frameMs = 1000
  /\ NumGT(accBefore, <<0, 0>>)

\* C16: a frame runs at most 8 Updates, the count Tick returned cut to 8;
\* what Tick returns is bounded by the frame's own (clamped) elapsed time
\* plus the less than one step the accumulator held, so ticks dropped in an
\* earlier frame do not come back.
C16_AtMostEightPerFrame ==
  /\ executed <= 8
  /\ executed = (IF updateCount > 8 THEN 8 ELSE updateCount)
  /\ updateCount <= 1 + (Min(frameMs, 250) * 60) \div 1000
  /\ NumGT(dt, accumulator)

\* C16, the case: a stalled frame ran 8 Updates of the 15 or more returned,
\* and the short frame after it ran none.
C16_Case ==
  /\ tickCalls = 2 /\ frameMs = 5
  /\ executedSum = 8 /\ executed = 0

C18_OpenMasksIntersect ==
  (gPc = "out" /\ gIn.maskA = 0..31 /\ gIn.maskB = 0..31 /\ gOut.rectAB)
    => gOut.ab

\* C18, the case: default masks, overlapping rectangles, layers other than
\* the default 0.
C18_Case ==
  /\ gPc = "out" /\ gIn.maskA = 0..31 /\ gIn.maskB = 0..31 /\ gOut.rectAB
  /\ gIn.layerA # 0 /\ gIn.layerB # 0

\* C19: rectangles of 2 x 2 intersect exactly when their distance is less
\* than 2 on both axes, so not when they share only an edge or a corner;
\* Collider.Intersects does not report them either, and Rectangle.Intersects
\* is symmetric.
C19_TouchingIsNotIntersecting ==
  gPc = "out" =>
    /\ gOut.rectAB = gOut.rectBA
    /\ gOut.rectAB = (gIn.x < 2 /\ gIn.y < 2)
    /\ (gIn.x = 2 \/ gIn.y = 2) => (~gOut.rectAB /\ ~gOut.ab /\ ~gOut.ba)

\* C19, the case: compatible colliders that share an edge, and ones that
\* share a corner only.
C19_Case ==
  /\ gPc = "out" /\ gIn.maskA = 0..31 /\ gIn.maskB = 0..31
  /\ gIn.layerA = 0 /\ gIn.layerB = 0
  /\ gIn.x = 2 /\ gIn.y \in {0, 2}
  /\ ~gOut.ab

\* The entity is active, owns a collider of 2 x 2 centred on its position,
\* and the point is within 1 of the position on both axes.
C20_Hit(e, x, y) ==
  /\ e.Active
  /\ e.Collider # <<>>
  /\ e.Transform.Position.X - 1 <= x /\ x <= e.Transform.Position.X + 1
  /\ e.Transform.Position.Y - 1 <= y /\ y <= e.Transform.Position.Y + 1

\* C20: GetEntitiesAt returns a non-nil slice holding exactly the active
\* entities that own a collider whose world rectangle contains the point,
\* edges included: none without a collider, none inactive, one entity when
\* the point is inside exactly one, the empty slice when it is inside none.
C20_GetEntitiesAtExact ==
  gPc = "found" =>
    /\ ~gOut.isNil
    /\ gOut.items = SelectSeq(gIn.entities, LAMBDA e : C20_Hit(e, gIn.x, gIn.y))

\* C20, the case: the point is the position of an active entity that owns
\* no collider, and no entity's collider contains it.
C20_Case ==
  /\ gPc = "found"
  /\ \E i \in DOMAIN gIn.entities :
       LET e == gIn.entities[i]
       IN /\ e.Active /\ e.Collider = <<>>
          /\ e.Transform.Position.X = gIn.x /\ e.Transform.Position.Y = gIn.y
  /\ \A i \in DOMAIN gIn.entities : ~C20_Hit(gIn.entities[i], gIn.x, gIn.y)

\* C21: with Scale left at its zero value the world bounds of NewCollider(w, h)
\* are the w x h rectangle centred on Position, and two such 50 x 50
\* colliders 10 or 20 apart on x intersect (so Scene.Update, which reports
\* the pairs that intersect, produces OnCollisionEnter).
C21_ZeroScaleBounds ==
  (gPc = "wbOut" /\ gIn.scale = 0) =>
    /\ gOut.boundsA = [X |-> gIn.x - gIn.w \div 2, Y |-> gIn.y - gIn.h \div 2,
                       Width |-> gIn.w, Height |-> gIn.h]
    /\ (gIn.w = 50 /\ gIn.h = 50 /\ gIn.dx \in {10, 20}) => (gOut.rect /\ gOut.ab)

\* C21, the case: 50 x 50 colliders 10 apart on x, Scale not set.
C21_Case ==
  /\ gPc = "wbOut" /\ gIn.scale = 0
  /\ gIn.w = 50 /\ gIn.h = 50 /\ gIn.dx = 10

\* The DrawSprite calls of frame f, in the order Run made them
DrawsOf(f) ==
  SelectSeq(eLog, LAMBDA ev : ev.kind \in {"draw", "drawFailed"} /\ ev.frame = f)
\* The ids of the active entities with a sprite, in collection order
VisibleIds ==
  LET vis == SelectSeq(eng.scene[1], LAMBDA e : e.Active /\ e.Sprite)
  IN [k \in DOMAIN vis |-> vis[k].ID]
Presented(f) == \E k \in DOMAIN eLog : eLog[k].kind = "present" /\ eLog[k].frame = f

C27_ErrorEndsRun ==
  /\ \A k \in DOMAIN eLog :
       eLog[k].kind \in {"clearFailed", "drawFailed"} =>
         /\ k = Len(eLog)
         /\ ePc = "returned"
         /\ eResult = (IF eLog[k].kind = "clearFailed" THEN "clear" ELSE "render")
         /\ ~Presented(eLog[k].frame)
  /\ ePc = "returned" => ~running
  /\ eResult \in {"clear", "render"} =>
       (eLog # <<>> /\ eLog[Len(eLog)].kind \in {"clearFailed", "drawFailed"})

\* C27, the case: the first frame was presented, Clear failed in the second.
C27_Case ==
  /\ ePc = "returned" /\ eResult = "clear" /\ ~running
  /\ eFrame = 2 /\ Presented(1) /\ ~Presented(2)

\* The frame of event k ran all the ticks Tick gave it and was presented.
FrameFinished(f) ==
  /\ Presented(f)
  /\ \E k \in DOMAIN eLog :
       /\ eLog[k].kind = "frame" /\ eLog[k].frame = f
       /\ eLog[k].id = Cardinality({j \in DOMAIN eLog :
                                      eLog[j].kind = "tick" /\ eLog[j].frame = f})
Failed == \E k \in DOMAIN eLog : eLog[k].kind \in {"clearFailed", "drawFailed"}

\* C28 as stated: after Stop in a frame no later frame starts, and once Run
\* has returned the frame was finished and Run returned nil.
C28_StopFinishesFrame ==
  \A k \in DOMAIN eLog :
    eLog[k].kind = "stop" =>
      /\ \A j \in DOMAIN eLog : j > k => eLog[j].frame = eLog[k].frame
      /\ ePc = "returned" => (FrameFinished(eLog[k].frame) /\ eResult = "nil")

\* C28, amended: the same unless Clear or Scene.Render fails in that frame;
\* then Run returns that error.  In every case no later frame starts, and
\* Run does not return before the frame's ticks are done.
C28_StopFinishesFrameUnlessError ==
  \A k \in DOMAIN eLog :
    eLog[k].kind = "stop" =>
      /\ \A j \in DOMAIN eLog : j > k => eLog[j].frame = eLog[k].frame
      /\ (ePc = "returned" /\ ~Failed) =>
           (FrameFinished(eLog[k].frame) /\ eResult = "nil")
      /\ (ePc = "returned" /\ Failed) =>
           (eResult \in {"clear", "render"} /\ ~Presented(eLog[k].frame))

\* C28, the case: Stop in the first of two ticks of the first frame; the
\* second tick ran, the frame was presented and Run returned nil.
C28_Case ==
  /\ ePc = "returned" /\ eResult = "nil"
  /\ Len(eLog) >= 4
  /\ eLog[1].kind = "frame" /\ eLog[1].id = 2
  /\ eLog[2].kind = "tick" /\ eLog[3].kind = "stop" /\ eLog[4].kind = "tick"
  /\ Presented(1)

\* C23: an id returned by AddEntity on one scene finds nothing in the other
\* scene, and a call on one scene leaves the other scene's collection, id
\* counter and pending removals as they were.
C23_ScenesIndependent ==
  /\ mLast.op = "add" =>
       GetEntity(WorldOf(OtherScene(mLast.scene)), mLast.id) = Nil
  /\ mLast.op \in {"add", "remove", "update"} =>
       scenes[OtherScene(mLast.scene)] = mLast.before[OtherScene(mLast.scene)]

\* C23, the case of TestMultipleScenes: entity A was added to scene 1,
\* then entity B to scene 2.
C23_Case ==
  /\ mLast.op = "add" /\ mLast.scene = 2
  /\ scenes[1].entities = <<"A">> /\ scenes[2].entities = <<"B">>

\* The entities the running update pass ranges over: the collection as it was
\* when the pass started.
Snapshot == SubSeq(entities, 1, rangeLen)
UpdatesOf(e) ==
  Cardinality({i \in DOMAIN log : log[i].kind = "update" /\ log[i].self = e})

\* C24: when the update pass has finished, the behaviour of every entity that
\* was in the collection and active when the pass started has been invoked
\* exactly once, and no behaviour of any other entity (one added during the
\* pass among them) has been invoked.
C24_UpdatedExactlyOnce ==
  (pc = "update" /\ idx > rangeLen) =>
    \A e \in Ents :
      UpdatesOf(e) = (IF e \in Range(Snapshot) /\ ent[e].Active /\ HasBehavior(e)
                      THEN 1 ELSE 0)

\* C24, the case: the pass ran over B alone, B's behaviour added the active
\* entity A, which has a behaviour, and the pass has finished.
C24_Case ==
  /\ pc = "update" /\ idx > rangeLen
  /\ Snapshot = <<"B">> /\ entities = <<"B", "A">>
  /\ ent["A"].Active
  /\ UpdatesOf("B") = 1 /\ UpdatesOf("A") = 0

\* C29: the pairs collision detection reports in a tick are pairs of
\* entities that were in the collection when the tick's update pass started,
\* and no collision event of the tick involves an entity added during the
\* pass.
C29_AddedEntityNotDetected ==
  pc = "dispatch" =>
    /\ \A k \in DOMAIN collisions :
         collisions[k][1] \in Range(Snapshot) /\ collisions[k][2] \in Range(Snapshot)
    /\ \A i \in DOMAIN log :
         log[i].kind \in {"enter", "stay", "exit"} =>
           (log[i].self \in Range(Snapshot) /\ log[i].other \in Range(Snapshot))

\* C29, the case: the tick started with B alone, B's behaviour added A on
\* top of B, and collision detection has run.
C29_Case ==
  /\ pc = "dispatch"
  /\ Snapshot = <<"B">> /\ entities = <<"B", "A">>
  /\ Overlapping("A", "B")

IsPrefix(s, t) == Len(s) <= Len(t) /\ SubSeq(t, 1, Len(s)) = s

C31_NeverFaults ==
  gPc = "malOut" => ~gOut.intersects.fault /\ ~gOut.update.fault

\* a negative layer on an active entity: Intersects was called with it
C31_Case ==
  /\ gPc = "malOut"
  /\ gIn.layerB < 0 /\ gIn.active /\ gIn.w < 0
  /\ gOut.intersects.fault /\ gOut.update.fault

\* C32: GetWorldBounds, Intersects and the colliding pairs do not depend on
\* the rotations; the world rectangle is offset and size scaled per axis by
\* Scale and translated by Position.
C32_RotationIgnored ==
  gPc = "rotOut" =>
    /\ gOut.first = gOut.second
    /\ gOut.first.boundsB =
         [X |-> gIn.dx + (gIn.off - (gIn.w \div 2)) * gIn.sx,
          Y |-> (0 - (gIn.h \div 2)) * gIn.sy,
          Width |-> gIn.w * gIn.sx,
          Height |-> gIn.h * gIn.sy]

\* two runs with different rotations of an overlapping pair of oblong,
\* unevenly scaled colliders
C32_Case ==
  /\ gPc = "rotOut"
  /\ gIn.rotA # gIn.rotA2 /\ gIn.rotB # gIn.rotB2 /\ gIn.rotB2 = 90
  /\ gIn.w # gIn.h /\ gIn.sx # gIn.sy
  /\ gOut.second.ab /\ Len(gOut.second.pairs) = 1

\* the frame rate of the window between the last two updates of the
\* counter, in thousandths of a frame per second
MeasuredRate == (window.frames * 1000000) \div (window.us \div 1000)

\* C33: once the counter has been updated, GetFPS is the number of frames
\* rendered divided by the wall-clock time in which they were rendered (to
\* within one frame per second).
C33_FPSIsMeasuredRate ==
  fpsUpdates > 0 /\ shown = GetFPS =>
    /\ shown - MeasuredRate <= 1000
    /\ MeasuredRate - shown <= 1000

\* a loop at 30 frames per second whose updated counter has been read
C33_Case ==
  /\ fpsUpdates > 0 /\ shown = GetFPS
  /\ period = 33333
  /\ MeasuredRate < 31000

\* C35: every key-down transition delivered by the event pump of a frame is
\* seen as KeyPressed in exactly one executed tick.
C35_PressSeenInOneTick ==
  \A k \in lastFrame.pressed : lastFrame.seen[k] = 1

\* a frame without ticks whose pump delivered a key-down transition has ended
C35_Case ==
  /\ lastFrame.pressed # {}
  /\ lastFrame.ticks = 0
  /\ \E k \in lastFrame.pressed : k \in down /\ lastFrame.seen[k] = 0

\* the cache of the AssetManager
Cache == <<textures, refCount, nextTexture, destroyed>>

OverlappingNow ==
  LET hit(p) ==
        /\ p[1] < p[2]
        /\ Collidable(entities[p[1]]) /\ Collidable(entities[p[2]])
        /\ Intersects(ColliderOf(entities[p[1]]), ColliderOf(entities[p[2]]),
                      ent[entities[p[1]]].Transform, ent[entities[p[2]]].Transform)
  IN {<<entities[p[1]], entities[p[2]]>> :
        p \in {q \in (DOMAIN entities) \X (DOMAIN entities) : hit(q)}}

\* the enter and stay callbacks owed to the first n pairs of the pair list
RECURSIVE OwedEvents(_)
OwedEvents(n) ==
  IF n = 0 THEN <<>>
  ELSE LET a == collisions[n][1]
           b == collisions[n][2]
           key == newCollisionPairKey(ent[a].ID, ent[b].ID)
           kind == IF key \in previousCollisions THEN "stay" ELSE "enter"
       IN OwedEvents(n - 1)
            \o (IF HasHandler(kind, a) THEN <<Event(kind, a, b, key)>> ELSE <<>>)
            \o (IF HasHandler(kind, b) THEN <<Event(kind, b, a, key)>> ELSE <<>>)

\* the enter and stay callbacks made so far in this tick
EnterStayLog == SelectSeq(log, LAMBDA ev : ev.kind \in {"enter", "stay"})

\* C36: the pair list is computed from the state the behaviours left and is
\* not changed while the handlers run, nor is the collision history; the
\* enter and stay callbacks made are exactly those owed to the pairs
\* dispatched so far, whatever the handlers did to the entities.
C36_EventsFixedBeforeDispatch ==
  /\ [][/\ (pc = "update" /\ pc' = "dispatch")
             => {collisions'[k] : k \in DOMAIN collisions'} = OverlappingNow
        /\ (pc = "dispatch" /\ pc' = "dispatch")
             => collisions' = collisions /\ previousCollisions' = previousCollisions
       ]_vars
  /\ [](pc = "dispatch" =>
          EnterStayLog = OwedEvents(Min(idx - 1, Len(collisions))))

\* A's handler has switched A off in the callbacks of the pair (A, B); A has
\* then received the enter callback of its pair with C
C36_Case ==
  /\ pc = "dispatch"
  /\ ~ent["A"].Active
  /\ \E i, j \in DOMAIN log :
       /\ i < j
       /\ log[i].kind = "enter" /\ log[i].self = "A" /\ log[i].other = "B"
       /\ log[j].kind = "enter" /\ log[j].self = "A" /\ log[j].other = "C"

\* C38: when Scene.Update returns the removal queue is empty, and the
\* removal step leaves no entity in the collection whose id was in the queue.
C38_NothingPendingAfterUpdate ==
  /\ [](pc = "done" => entitiesToRemove = <<>>)
  /\ [][(pc = "removal" /\ pc' = "done") =>
          \A e \in Range(entities') :
            /\ ent'[e].ID \notin Range(entitiesToRemove)
            /\ ent[e].ID \notin Range(entitiesToRemove)]_vars

\* B's enter handler queued the id of A, the other entity of its pair: the
\* Update has returned without A
C38_Case ==
  /\ pc = "done"
  /\ "B" \in Range(entities) /\ "A" \notin Range(entities)
  /\ \E i \in DOMAIN log : log[i].kind = "enter" /\ log[i].self = "B"
                               /\ log[i].other = "A"
  /\ "A" \notin selfRemoved /\ frameQueued = {}

\* C39: no collision callback is made on an entity with itself as the other
\* entity, and every key of the collision history has two distinct ids.
C39_NoSelfCollision ==
  /\ \A i \in DOMAIN log :
       log[i].kind \in CallbackKinds => log[i].self # log[i].other
  /\ \A key \in previousCollisions : key[1] # key[2]

\* an entity that is twice in the collection has received a callback with
\* itself
C39_Case ==
  /\ \E i \in DOMAIN log :
       log[i].kind \in CallbackKinds /\ log[i].self = log[i].other
  /\ \E i, j \in DOMAIN entities : i # j /\ entities[i] = entities[j]

\* the callback `kind` has been made in this tick on each entity of the pair
\* q that has a handler for it, with the other entity of q
Delivered(kind, q) ==
  \A e \in q : \A o \in q \ {e} :
    HasHandler(kind, e) =>
      \E i \in DOMAIN log :
        log[i].kind = kind /\ log[i].self = e /\ log[i].other = o

\* C37: when the callbacks of a tick are complete, a pair that collided in
\* the tick before, has both entities in the collection, one of them
\* inactive, and does not collide now has received exit on both entities;
\* a pair that collides now and did not in the tick before has received
\* enter on both.
C37_InactiveEndsPair ==
  (pc = "dispatch" /\ idx > Len(collisions) /\ Ended = {}) =>
    /\ \A q \in prevPairs :
         (/\ Cardinality(q) = 2
          /\ q \subseteq Range(entities)
          /\ q \notin PairsOf(collisions)
          /\ \E e \in q : ~ent[e].Active)
           => Delivered("exit", q)
    /\ \A q \in PairsOf(collisions) \ prevPairs :
         Cardinality(q) = 2 => Delivered("enter", q)

\* A and B collided in the tick before; A is inactive and still in the
\* collection, and both have received exit
C37_Case ==
  /\ pc = "dispatch" /\ idx > Len(collisions) /\ Ended = {}
  /\ {"A", "B"} \in prevPairs
  /\ ~ent["A"].Active
  /\ Calls("exit", "A", "B") = 1 /\ Calls("exit", "B", "A") = 1

====
